---- MODULE Spec2Model ----
(***************************************************************************)
(* OrderChat: the cart / conversation state machine of app/ordering.py.   *)
(*                                                                         *)
(* Text is modelled as TLA+ strings over ASCII; the text helpers of the    *)
(* source (normalisation, splitting, quantity prefix, fuzzy matching with  *)
(* difflib's ratio) are computed character by character.  Prices are kept  *)
(* in pence (1.50 is 150), so round(x, 2) of a sum of pence is the sum.    *)
(***************************************************************************)
EXTENDS Integers, Sequences, FiniteSets, TLC

(***************************************************************************)
(* Characters.                                                             *)
(***************************************************************************)
At(s, i) == SubSeq(s, i, i)

LowerAlphabet == "abcdefghijklmnopqrstuvwxyz"
UpperAlphabet == "ABCDEFGHIJKLMNOPQRSTUVWXYZ"
DigitAlphabet == "0123456789"
\* ASCII order of the characters a normalised key can hold (space < digits < letters).
KeyAlphabet == " 0123456789abcdefghijklmnopqrstuvwxyz"

IndexIn(c, alphabet) ==
    IF \E i \in 1..Len(alphabet) : At(alphabet, i) = c
    THEN CHOOSE i \in 1..Len(alphabet) : At(alphabet, i) = c
    ELSE 0

IsDigit(c) == IndexIn(c, DigitAlphabet) > 0
IsLowerAlnum(c) == IndexIn(c, LowerAlphabet \o DigitAlphabet) > 0
\* \w of the re module, on ASCII text.
IsWordChar(c) == IndexIn(c, LowerAlphabet \o UpperAlphabet \o DigitAlphabet \o "_") > 0
\* \s of the re module; the messages of the model hold no other white space.
IsSpace(c) == c = " "

LowerCharAt(u, c) == IF u > 0 THEN At(LowerAlphabet, u) ELSE c
LowerChar(c) == LowerCharAt(IndexIn(c, UpperAlphabet), c)

SetMin(S) == CHOOSE x \in S : \A y \in S : x <= y
SetMax(S) == CHOOSE x \in S : \A y \in S : x >= y

(***************************************************************************)
(* str methods.                                                            *)
(***************************************************************************)
\* s.lower()
RECURSIVE Lower(_)
Lower(s) ==
    IF Len(s) = 0 THEN ""
    ELSE IF Len(s) = 1 THEN LowerChar(s)
    ELSE Lower(SubSeq(s, 1, Len(s) \div 2)) \o Lower(SubSeq(s, Len(s) \div 2 + 1, Len(s)))

\* the first index >= i of s that holds no white space (Len(s) + 1 when none)
RECURSIVE SkipSpaces(_, _)
SkipSpaces(s, i) == IF i <= Len(s) /\ IsSpace(At(s, i)) THEN SkipSpaces(s, i + 1) ELSE i

\* the last index <= i of s that holds no white space (0 when none)
RECURSIVE SkipSpacesBack(_, _)
SkipSpacesBack(s, i) == IF i >= 1 /\ IsSpace(At(s, i)) THEN SkipSpacesBack(s, i - 1) ELSE i

\* s.strip()
Strip(s) == SubSeq(s, SkipSpaces(s, 1), SkipSpacesBack(s, Len(s)))

\* q in s
Contains(s, q) ==
    \E i \in 1..(Len(s) - Len(q) + 1) : SubSeq(s, i, i + Len(q) - 1) = q

\* s.startswith(p)
StartsWith(s, p) == Len(p) <= Len(s) /\ SubSeq(s, 1, Len(p)) = p

\* the first index >= i at which q occurs in s, 0 when there is none (s.find)
RECURSIVE Find(_, _, _)
Find(s, q, i) ==
    IF i + Len(q) - 1 > Len(s) THEN 0
    ELSE IF SubSeq(s, i, i + Len(q) - 1) = q THEN i
    ELSE Find(s, q, i + 1)

\* s.replace(old, new): every non-overlapping occurrence, left to right
RECURSIVE ReplaceFrom(_, _, _, _)
ReplaceAt(s, old, new, i, j) ==
    IF Len(old) = 0 \/ j = 0 THEN SubSeq(s, i, Len(s))
    ELSE SubSeq(s, i, j - 1) \o new \o ReplaceFrom(s, old, new, j + Len(old))

ReplaceFrom(s, old, new, i) == ReplaceAt(s, old, new, i, Find(s, old, i))

Replace(s, old, new) == ReplaceFrom(s, old, new, 1)

\* lexicographic s < t on keys (Python's str comparison, by code point)
RECURSIVE StrLess(_, _)
StrLess(s, t) ==
    IF Len(t) = 0 THEN FALSE
    ELSE IF Len(s) = 0 THEN TRUE
    ELSE IF At(s, 1) # At(t, 1)
         THEN IndexIn(At(s, 1), KeyAlphabet) < IndexIn(At(t, 1), KeyAlphabet)
         ELSE StrLess(Tail(s), Tail(t))

(***************************************************************************)
(* Regular-expression helpers of app/ordering.py.                          *)
(***************************************************************************)
\* the first index >= i of s that holds no digit (Len(s) + 1 when none)
RECURSIVE SkipDigits(_, _)
SkipDigits(s, i) == IF i <= Len(s) /\ IsDigit(At(s, i)) THEN SkipDigits(s, i + 1) ELSE i

\* int(digits)
RECURSIVE ParseNat(_)
ParseNat(d) ==
    IF Len(d) = 0 THEN 0
    ELSE 10 * ParseNat(SubSeq(d, 1, Len(d) - 1)) + (IndexIn(At(d, Len(d)), DigitAlphabet) - 1)

\* s[p] is a word character (FALSE outside the text)
IsWordAt(s, p) == p >= 1 /\ p <= Len(s) /\ IsWordChar(At(s, p))

\* \b between s[p] and s[p+1] (p = 0 is the start, p = Len(s) the end)
WordBoundary(s, p) == IsWordAt(s, p) # IsWordAt(s, p + 1)

\* s[i] is outside [a-z0-9\s] (FALSE before the text)
IsPunctAt(s, i) == i >= 1 /\ ~IsLowerAlnum(At(s, i)) /\ ~IsSpace(At(s, i))

\* _PUNCT_RE.sub(" ", s): each run of characters outside [a-z0-9\s] becomes one space
RECURSIVE PunctSubRange(_, _, _)
PunctSubRange(s, lo, hi) ==
    IF lo > hi THEN ""
    ELSE IF lo = hi THEN
        IF ~IsPunctAt(s, lo) THEN At(s, lo) ELSE IF IsPunctAt(s, lo - 1) THEN "" ELSE " "
    ELSE PunctSubRange(s, lo, (lo + hi) \div 2) \o PunctSubRange(s, (lo + hi) \div 2 + 1, hi)

PunctSub(s) == PunctSubRange(s, 1, Len(s))

\* re.sub(r"\s+", " ", s).strip()
RECURSIVE CollapseRange(_, _, _)
CollapseRange(s, lo, hi) ==
    IF lo > hi THEN ""
    ELSE IF lo = hi THEN
        IF IsSpace(At(s, lo)) /\ lo > 1 /\ IsSpace(At(s, lo - 1)) THEN "" ELSE At(s, lo)
    ELSE CollapseRange(s, lo, (lo + hi) \div 2) \o CollapseRange(s, (lo + hi) \div 2 + 1, hi)

CollapseSpaces(s) == Strip(CollapseRange(s, 1, Len(s)))

\* the first index >= j at which the word k stands in s between word boundaries,
\* 0 when there is none
RECURSIVE FindWord(_, _, _)
FindWord(s, k, j) ==
    IF j + Len(k) - 1 > Len(s) THEN 0
    ELSE IF /\ SubSeq(s, j, j + Len(k) - 1) = k
            /\ WordBoundary(s, j - 1)
            /\ WordBoundary(s, j + Len(k) - 1)
         THEN j
         ELSE FindWord(s, k, j + 1)

\* re.sub(rf"\b{re.escape(k)}\b", v, s)
RECURSIVE SubWordFrom(_, _, _, _)
SubWordAt(s, k, v, i, j) ==
    IF j = 0 THEN SubSeq(s, i, Len(s))
    ELSE SubSeq(s, i, j - 1) \o v \o SubWordFrom(s, k, v, j + Len(k))

SubWordFrom(s, k, v, i) == SubWordAt(s, k, v, i, FindWord(s, k, i))

SubWord(s, k, v) == SubWordFrom(s, k, v, 1)

(***************************************************************************)
(* Text helpers.  A synonym map is the sequence of its <<key, value>>      *)
(* pairs in the dict's iteration order.                                    *)
(***************************************************************************)
_DEFAULT_SYNONYMS ==
    << <<"chips", "fries">>, <<"chip", "fries">>, <<"coke", "coca cola">>,
       <<"cola", "coca cola">>, <<"water", "still water">>, <<"donner", "doner">>,
       <<"pepperonni", "pepperoni">>, <<"margarita", "margherita">>,
       <<"coca-cola", "coca cola">>, <<"cocacola", "coca cola">> >>

_GREETINGS ==
    {"hi", "hello", "hey", "yo", "hiya", "sup", "alright", "alright mate", "mate",
     "boss", "bossman", "morning", "evening"}

_NO_EXTRAS ==
    {"no extras", "no extra", "no", "none", "nah", "no thanks", "no thank you", "no thx"}

_CONTINUE_ORDER ==
    {"and a drink", "a drink", "drink", "something to drink", "and a side", "a side",
     "side", "sides", "and dessert", "dessert", "something sweet", "anything else",
     "something else", "add another", "another", "also", "yes", "yeah", "yep", "ok", "okay"}

RECURSIVE ApplySynonyms(_, _, _)
ApplySynonyms(s, synonyms, n) ==
    IF n > Len(synonyms) \/ s = "" THEN s
    ELSE ApplySynonyms(IF synonyms[n][1] = "" THEN s
                       ELSE SubWord(s, Lower(synonyms[n][1]), Lower(synonyms[n][2])),
                       synonyms, n + 1)

_normalize_text(s, synonyms) ==
    CollapseSpaces(ApplySynonyms(CollapseSpaces(PunctSub(Lower(Strip(s)))), synonyms, 1))

\* the end of a match of the words of ws, joined by \s*, at the start of s after \s*
\* (ignoring case); 0 when they do not match
RECURSIVE WordsEnd(_, _, _, _)
WordEndAt(s, ws, n, p) ==
    IF p + Len(ws[n]) - 1 <= Len(s) /\ Lower(SubSeq(s, p, p + Len(ws[n]) - 1)) = ws[n]
    THEN WordsEnd(s, ws, n + 1, p + Len(ws[n]))
    ELSE 0

WordsEnd(s, ws, n, i) ==
    IF n > Len(ws) THEN i - 1 ELSE WordEndAt(s, ws, n, SkipSpaces(s, i))

\* the first index >= i of s that holds neither a comma nor white space
RECURSIVE SkipCommaSpaces(_, _)
SkipCommaSpaces(s, i) ==
    IF i <= Len(s) /\ (IsSpace(At(s, i)) \/ At(s, i) = ",") THEN SkipCommaSpaces(s, i + 1) ELSE i

\* re.sub(r"^\s*(alt1|alt2|...)\b[,\s]*", "", s, flags=IGNORECASE): the first
\* alternative (in order) that matches and ends at a word boundary is removed
RECURSIVE StripLeading(_, _, _)
StripLeadingAt(s, alts, n, e) ==
    IF e > 0 /\ WordBoundary(s, e)
    THEN SubSeq(s, SkipCommaSpaces(s, e + 1), Len(s))
    ELSE StripLeading(s, alts, n + 1)

StripLeading(s, alts, n) ==
    IF n > Len(alts) THEN s ELSE StripLeadingAt(s, alts, n, WordsEnd(s, alts[n], 1, 1))

\* the first index >= j at which \bplease\b\s*$ matches s (ignoring case), 0 when none
RECURSIVE FindTrailingPlease(_, _)
FindTrailingPlease(s, j) ==
    IF j + 5 > Len(s) THEN 0
    ELSE IF /\ Lower(SubSeq(s, j, j + 5)) = "please"
            /\ WordBoundary(s, j - 1)
            /\ WordBoundary(s, j + 5)
            /\ SkipSpaces(s, j + 6) = Len(s) + 1
         THEN j
         ELSE FindTrailingPlease(s, j + 1)

CutBefore(s, j) == IF j = 0 THEN s ELSE SubSeq(s, 1, j - 1)

\* re.sub(r"\bplease\b\s*$", "", s, flags=IGNORECASE)
StripTrailingPlease(s) == CutBefore(s, FindTrailingPlease(s, 1))

_strip_filler_prefix(raw) ==
    Strip(StripTrailingPlease(
        StripLeading(
            StripLeading(Strip(raw), << <<"hi">>, <<"hello">>, <<"hey">> >>, 1),
            << <<"i", "would", "like">>, <<"i'd", "like">>, <<"id", "like">>,
               <<"can", "i", "get">>, <<"could", "i", "get">>, <<"may", "i", "have">> >>, 1)))

_AND_TOKEN == " __AND__ "

\* the variants of one phrase, in the order in which the set {ph, ph.replace(" & ",
\* " and "), ph.replace(" and ", " & ")} is walked; the replacements of different
\* variants act on different texts, so that order does not change the result
PhraseVariants(ph) ==
    << ph, Replace(ph, " & ", " and "), Replace(ph, " and ", " & ") >>

RECURSIVE ProtectVariants(_, _, _)
ProtectVariants(s, vs, n) ==
    IF n > Len(vs) THEN s
    ELSE IF (~Contains(vs[n], " and ") /\ ~Contains(vs[n], " & ")) \/ ~Contains(s, vs[n])
         THEN ProtectVariants(s, vs, n + 1)
         ELSE ProtectVariants(
                  Replace(s, vs[n], Replace(Replace(vs[n], " and ", Strip(_AND_TOKEN)),
                                            " & ", Strip(_AND_TOKEN))),
                  vs, n + 1)

RECURSIVE _protect_from(_, _, _)
ProtectPhrase(s, phrases, n, ph) ==
    IF ph = "" THEN _protect_from(s, phrases, n + 1)
    ELSE _protect_from(ProtectVariants(s, PhraseVariants(ph), 1), phrases, n + 1)

_protect_from(s, phrases, n) ==
    IF n > Len(phrases) THEN s ELSE ProtectPhrase(s, phrases, n, Lower(Strip(phrases[n])))

_protect_and_phrases(raw_lower, phrases) == _protect_from(raw_lower, phrases, 1)

_unprotect_and(s) == Replace(s, Strip(_AND_TOKEN), "and")

\* the quantity as it is written
AtLeastOne_as_written(n) == n

\* max(1, n)
AtLeastOne(n) == IF n < 1 THEN 1 ELSE n

\* the groups of _QTY_RE when the digits are msg[d1..d2-1] and the x may stand at xp
QtyGroups(msg, d1, d2, xp) ==
    IF ~(d2 > d1 /\ xp <= Len(msg) /\ Lower(At(msg, xp)) = "x" /\ xp + 1 <= Len(msg))
    THEN [qty |-> 1, text |-> Strip(msg)]
    ELSE [qty |-> AtLeastOne(ParseNat(SubSeq(msg, d1, d2 - 1))),
          text |-> Strip(SubSeq(msg, xp + 1, Len(msg)))]

\* _QTY_RE = ^\s*(\d+)\s*[x]\s*(.+?)\s*$, ignoring case
_parse_qty_prefix(msg) ==
    QtyGroups(msg, SkipSpaces(msg, 1), SkipDigits(msg, SkipSpaces(msg, 1)),
              SkipSpaces(msg, SkipDigits(msg, SkipSpaces(msg, 1))))

\* a separator of _SPLIT_RE starts at low[j]
IsSeparatorAt(low, j) ==
    \E sep \in {",", "&", "+", " and "} :
        j + Len(sep) - 1 <= Len(low) /\ SubSeq(low, j, j + Len(sep) - 1) = sep

\* the first index >= j of low at which a separator starts, 0 when there is none
RECURSIVE FindSeparator(_, _)
FindSeparator(low, j) ==
    IF j > Len(low) THEN 0
    ELSE IF IsSeparatorAt(low, j) THEN j
    ELSE FindSeparator(low, j + 1)

\* _SPLIT_RE = \s*(?:,|&|\+| and )\s*, ignoring case: the pieces between matches
RECURSIVE SplitFrom(_, _)
SplitAt(s, i, j) ==
    IF j = 0 THEN << SubSeq(s, i, Len(s)) >>
    ELSE << SubSeq(s, i, j - 1) >>
         \o SplitFrom(s, SkipSpaces(s, j + (IF At(s, j) = " " THEN 5 ELSE 1)))

SplitFrom(s, i) == SplitAt(s, i, FindSeparator(Lower(s), i))

SelectNonEmpty(parts) == SelectSeq(parts, LAMBDA p : Strip(p) # "")

UnprotectAll(pieces) == [i \in 1..Len(pieces) |-> _unprotect_and(Strip(pieces[i]))]

PartsOrWhole(parts, msg_norm) ==
    IF Len(parts) > 0 THEN parts ELSE << _unprotect_and(msg_norm) >>

_split_intents(msg_norm) ==
    PartsOrWhole(UnprotectAll(SelectNonEmpty(SplitFrom(msg_norm, 1))), msg_norm)

_is_greeting_only(msg_norm) == msg_norm # "" /\ msg_norm \in _GREETINGS

(***************************************************************************)
(* difflib: SequenceMatcher(a, b).ratio() and get_close_matches.  No       *)
(* character is junk (autojunk needs 200 characters).                      *)
(***************************************************************************)
\* the length of the longest common run that starts at a[i] and b[j]
RECURSIVE RunLen(_, _, _, _, _, _)
RunLen(a, i, ahi, b, j, bhi) ==
    IF i > ahi \/ j > bhi THEN 0
    ELSE IF At(a, i) # At(b, j) THEN 0
    ELSE 1 + RunLen(a, i + 1, ahi, b, j + 1, bhi)

\* the matching blocks <<i, j, k>> (k > 0) that start in a[alo..ahi] and b[blo..bhi]
Blocks(a, alo, ahi, b, blo, bhi) ==
    { << p[1], p[2], RunLen(a, p[1], ahi, b, p[2], bhi) >> :
        p \in {q \in (alo..ahi) \X (blo..bhi) : At(a, q[1]) = At(b, q[2])} }

\* the block that starts earliest in a and then earliest in b
EarliestBlock(cand) ==
    CHOOSE t \in cand : \A u \in cand : t[1] < u[1] \/ (t[1] = u[1] /\ t[2] <= u[2])

LongestBlock(blocks, best, alo, blo) ==
    IF best = 0 THEN << alo, blo, 0 >>
    ELSE EarliestBlock({t \in blocks : t[3] = best})

LongestOf(blocks, alo, blo) ==
    LongestBlock(blocks, SetMax({t[3] : t \in blocks} \cup {0}), alo, blo)

\* find_longest_match(alo, ahi, blo, bhi): the longest matching block, the one
\* starting earliest in a and then earliest in b; <<i, j, k>> with k = 0 when none
find_longest_match(a, alo, ahi, b, blo, bhi) ==
    LongestOf(Blocks(a, alo, ahi, b, blo, bhi), alo, blo)

\* the sum of the sizes of get_matching_blocks()
RECURSIVE MatchedChars(_, _, _, _, _, _)
MatchedAround(a, alo, ahi, b, blo, bhi, m) ==
    IF m[3] = 0 THEN 0
    ELSE m[3] + MatchedChars(a, alo, m[1] - 1, b, blo, m[2] - 1)
              + MatchedChars(a, m[1] + m[3], ahi, b, m[2] + m[3], bhi)

MatchedChars(a, alo, ahi, b, blo, bhi) ==
    IF alo > ahi \/ blo > bhi THEN 0
    ELSE MatchedAround(a, alo, ahi, b, blo, bhi, find_longest_match(a, alo, ahi, b, blo, bhi))

\* ratio() = 2.0 * M / T as the pair <<2M, T>>
Ratio(a, b) == << 2 * MatchedChars(a, 1, Len(a), b, 1, Len(b)), Len(a) + Len(b) >>

CountIn(s, c) == Cardinality({i \in 1..Len(s) : At(s, i) = c})

\* quick_ratio(): the characters in common, counted as multisets (an element of a
\* matches while b still has one of its kind left)
QuickMatches(a, b) ==
    Cardinality({i \in 1..Len(a) : CountIn(SubSeq(a, 1, i), At(a, i)) <= CountIn(b, At(a, i))})

\* r >= cutoff, the cutoff in hundredths
AtLeast(r, cutoff) == r[2] > 0 /\ 100 * r[1] >= cutoff * r[2]

\* (r1, x1) < (r2, x2) as Python orders the tuples (ratio, key)
ScoreLess(r1, x1, r2, x2) ==
    \/ r1[1] * r2[2] < r2[1] * r1[2]
    \/ r1[1] * r2[2] = r2[1] * r1[2] /\ StrLess(x1, x2)

Shorter(la, lb) == IF la < lb THEN la ELSE lb

\* real_quick_ratio(), quick_ratio() and ratio() of x against word reach the cutoff
IsClose(x, word, cutoff, ratio) ==
    /\ Len(x) + Len(word) > 0
    /\ AtLeast(<< 2 * Shorter(Len(x), Len(word)), Len(x) + Len(word) >>, cutoff)
    /\ AtLeast(<< 2 * QuickMatches(x, word), Len(x) + Len(word) >>, cutoff)
    /\ AtLeast(ratio, cutoff)

\* heapq.nlargest(1, result): the close possibility of the greatest (ratio, key)
BestClose(possibilities, ratios, good) ==
    IF good = {} THEN ""
    ELSE possibilities[CHOOSE i \in good : \A j \in good :
             ~ScoreLess(ratios[i], possibilities[i], ratios[j], possibilities[j])]

CloseMatches(word, possibilities, cutoff, ratios) ==
    BestClose(possibilities, ratios,
              {i \in 1..Len(possibilities) :
                   IsClose(possibilities[i], word, cutoff, ratios[i])})

\* difflib.get_close_matches(word, possibilities, n=1, cutoff): the best key, "" when none
get_close_matches(word, possibilities, cutoff) ==
    CloseMatches(word, possibilities, cutoff,
                 [i \in 1..Len(possibilities) |-> Ratio(possibilities[i], word)])

\* the steps of _fuzzy_best_key on the stripped, lower-case query q
BestKey(keys, q, cutoff) ==
    IF \E i \in 1..Len(keys) : keys[i] = q THEN q
    ELSE IF \E i \in 1..Len(keys) : q # "" /\ Contains(keys[i], q)
         THEN keys[SetMin({i \in 1..Len(keys) : q # "" /\ Contains(keys[i], q)})]
         ELSE get_close_matches(q, keys, cutoff)

\* _fuzzy_best_key(keys, query, cutoff): "" stands for None
_fuzzy_best_key(keys, query, cutoff) ==
    IF query = "" \/ Len(keys) = 0 THEN "" ELSE BestKey(keys, Lower(Strip(query)), cutoff)

\* float() of the decimals of a price, in pence
Cents(frac) ==
    IF Len(frac) = 0 THEN 0
    ELSE IF Len(frac) = 1 THEN 10 * ParseNat(frac)
    ELSE ParseNat(SubSeq(frac, 1, 2))

PriceClose(s, value, close) == IF close <= Len(s) /\ At(s, close) = ")" THEN value ELSE -1

PriceDigits(s, d1, d2) ==
    IF d2 <= d1 THEN -1
    ELSE IF d2 + 1 <= Len(s) /\ At(s, d2) = "." /\ IsDigit(At(s, d2 + 1))
         THEN PriceClose(s, 100 * ParseNat(SubSeq(s, d1, d2 - 1))
                            + Cents(SubSeq(s, d2 + 1, SkipDigits(s, d2 + 1) - 1)),
                         SkipSpaces(s, SkipDigits(s, d2 + 1)))
         ELSE PriceClose(s, 100 * ParseNat(SubSeq(s, d1, d2 - 1)), SkipSpaces(s, d2))

PriceNumber(s, d1) == PriceDigits(s, d1, SkipDigits(s, d1))

PriceSign(s, p1) ==
    IF p1 <= Len(s) /\ At(s, p1) = "+" THEN PriceNumber(s, SkipSpaces(s, p1 + 1)) ELSE -1

\* the pence of a match of _PRICE_DELTA_RE whose "(" is s[i], -1 when there is none
PriceAt(s, i) == IF At(s, i) = "(" THEN PriceSign(s, SkipSpaces(s, i + 1)) ELSE -1

RECURSIVE PriceSearch(_, _)
PriceSearchAt(s, i, found) == IF found >= 0 THEN found ELSE PriceSearch(s, i + 1)

PriceSearch(s, i) == IF i > Len(s) THEN 0 ELSE PriceSearchAt(s, i, PriceAt(s, i))

\* _PRICE_DELTA_RE = \(\s*\+\s*(?:POUND\s*)?([0-9]+(?:\.[0-9]+)?)\s*\) and float() of
\* its group, in pence (the options of the model give at most two decimals and no
\* currency sign)
_extract_price_delta(choice_text) == PriceSearch(choice_text, 1)

(***************************************************************************)
(* The menu document (the flat schema: categories and items side by side;  *)
(* every modifier has a key, so _get_item_modifiers keeps them all).       *)
(* Item 0 / category 0 stand for None.                                     *)
(***************************************************************************)
Menu ==
    [ meta |-> [synonyms |-> << >>],
      categories |-> << [id |-> "wraps", name |-> "Wraps"],
                        [id |-> "pizzas", name |-> "Pizzas"],
                        [id |-> "sides", name |-> "Sides"],
                        [id |-> "noodles", name |-> "Noodles"] >>,
      items |-> <<
        [id |-> "doner_wrap", name |-> "Doner Wrap", category_id |-> "wraps",
         base_price |-> 600,
         modifiers |-> << [key |-> "size", required |-> TRUE, multi |-> FALSE,
                           options |-> << "Regular", "Large (+1.50)" >>] >>,
         extras |-> << [name |-> "Cheese", price |-> 50] >>],
        [id |-> "margherita", name |-> "Margherita", category_id |-> "pizzas",
         base_price |-> 800,
         modifiers |-> << [key |-> "base", required |-> TRUE, multi |-> FALSE,
                           options |-> << "Thin", "Deep (+2.00)" >>],
                          [key |-> "dip", required |-> FALSE, multi |-> FALSE,
                           options |-> << "Garlic", "BBQ" >>],
                          [key |-> "toppings", required |-> TRUE, multi |-> TRUE,
                           options |-> << "Ham (+1.00)", "Olives (+0.50)" >>] >>,
         extras |-> << >>],
        [id |-> "fries", name |-> "Fries", category_id |-> "sides",
         base_price |-> 250, modifiers |-> << >>, extras |-> << >>],
        [id |-> "chicken_burger", name |-> "Chicken Burger", category_id |-> "sides",
         base_price |-> 500, modifiers |-> << >>, extras |-> << >>],
        [id |-> "chicken_wings", name |-> "Chicken Wings", category_id |-> "sides",
         base_price |-> 400, modifiers |-> << >>, extras |-> << >>] >> ]

UpsertAt(merged, at, k, v) ==
    IF at = {} THEN Append(merged, << k, v >>)
    ELSE [merged EXCEPT ![SetMin(at)] = << k, v >>]

\* dict.update on a synonym map: a known key keeps its place and takes the new
\* value, a new key is appended
Upsert(merged, k, v) == UpsertAt(merged, {i \in 1..Len(merged) : merged[i][1] = k}, k, v)

RECURSIVE UpdateSynonyms(_, _, _)
UpdateSynonyms(merged, custom, n) ==
    IF n > Len(custom) THEN merged
    ELSE UpdateSynonyms(Upsert(merged, Lower(custom[n][1]), Lower(custom[n][2])), custom, n + 1)

_menu_synonyms(menu) == UpdateSynonyms(_DEFAULT_SYNONYMS, menu.meta.synonyms, 1)

(***************************************************************************)
(* _build_menu_index: each lookup is a dict from a key to an item; it is   *)
(* modelled by the sequence of the keys the entries are inserted under (a  *)
(* dict key keeps the place of its first insertion and, per key, the entry *)
(* inserted last).  Entry 0 stands for None.                               *)
(***************************************************************************)
RECURSIVE DictKeys(_, _)
DictKeys(keys, n) ==
    IF n > Len(keys) THEN << >>
    ELSE IF keys[n] = "" THEN DictKeys(keys, n + 1)
    ELSE << keys[n] >> \o SelectSeq(DictKeys(keys, n + 1), LAMBDA r : r # keys[n])

DictGet(keys, k) ==
    IF k = "" \/ ~\E i \in 1..Len(keys) : keys[i] = k THEN 0
    ELSE SetMax({i \in 1..Len(keys) : keys[i] = k})

NamesRaw(entries) == [i \in 1..Len(entries) |-> Lower(Strip(entries[i].name))]

\* a name that is empty is not indexed (if nm:), whatever its normal form
NamesNorm(entries, synonyms) ==
    [i \in 1..Len(entries) |->
        IF Strip(entries[i].name) = "" THEN ""
        ELSE _normalize_text(Strip(entries[i].name), synonyms)]

\* the names of the two views of a name index, without and with the synonyms
NameViews(entries, synonyms) ==
    [k \in 1..2 |-> NamesNorm(entries, IF k = 1 THEN << >> ELSE synonyms)]

IndexOf(menu, item_views, cat_views) ==
    [ items_by_id |-> [i \in 1..Len(menu.items) |-> Strip(menu.items[i].id)],
      items_by_name_raw |-> NamesRaw(menu.items),
      items_by_name_norm |-> item_views[1],
      items_by_name_norm_syn |-> item_views[2],
      cats_by_name_raw |-> NamesRaw(menu.categories),
      cats_by_name_norm |-> cat_views[1],
      cats_by_name_norm_syn |-> cat_views[2],
      and_phrases |-> SelectSeq(DictKeys(NamesRaw(menu.items), 1),
                                LAMBDA nm : Contains(nm, " and ") \/ Contains(nm, " & ")) ]

\* as _build_menu_index, but a menu that carries an index already gets one of its
\* categories only
_build_menu_index_once(menu, synonyms) ==
    [ meta |-> menu.meta, categories |-> menu.categories, items |-> menu.items,
      _index |-> IF "_index" \in DOMAIN menu
                 THEN IndexOf([menu EXCEPT !.items = << >>], NameViews(<< >>, synonyms),
                              NameViews(menu.categories, synonyms))
                 ELSE IndexOf(menu, NameViews(menu.items, synonyms),
                              NameViews(menu.categories, synonyms)) ]

\* menu["_index"] = idx
_build_menu_index(menu, synonyms) ==
    [ meta |-> menu.meta, categories |-> menu.categories, items |-> menu.items,
      _index |-> IndexOf(menu, NameViews(menu.items, synonyms),
                         NameViews(menu.categories, synonyms)) ]

\* items_by_id.get(item_id): 0 when the id is unknown
ItemById(menu, item_id) == DictGet(menu._index.items_by_id, item_id)

\* _try of _find_item_in_text: lookup.get(_fuzzy_best_key(list(lookup.keys()), q, cutoff))
TryLookup(lookup, q, cutoff) ==
    IF q = "" THEN 0
    ELSE DictGet(lookup, _fuzzy_best_key(DictKeys(lookup, 1), q, cutoff))

\* the hit of the first of the lookups that has one for its query, 0 when none has
RECURSIVE FirstLookup(_, _, _, _)
FirstLookupAt(lookups, queries, cutoff, n, hit) ==
    IF hit # 0 THEN hit ELSE FirstLookup(lookups, queries, cutoff, n + 1)

FirstLookup(lookups, queries, cutoff, n) ==
    IF n > Len(lookups) THEN 0
    ELSE FirstLookupAt(lookups, queries, cutoff, n,
                       TryLookup(lookups[n], queries[n], cutoff[n]))

\* raw_q, norm_q and syn_q of a text
Queries(raw_q, text, synonyms) ==
    [k \in 1..3 |-> IF k = 1 THEN raw_q
                    ELSE _normalize_text(text, IF k = 2 THEN << >> ELSE synonyms)]

ItemLookups(menu) ==
    << menu._index.items_by_name_raw, menu._index.items_by_name_norm,
       menu._index.items_by_name_norm_syn >>

_find_item_in_text(menu, text, synonyms) ==
    FirstLookup(ItemLookups(menu), Queries(Lower(Strip(text)), text, synonyms),
                << 80, 62, 62 >>, 1)

\* append x to out unless it is there
AddOnce(out, x) == IF \E i \in 1..Len(out) : out[i] = x THEN out ELSE Append(out, x)

\* the queries that are not empty, each once
RECURSIVE DistinctQueries(_, _, _)
DistinctQueries(out, queries, n) ==
    IF n > Len(queries) THEN out
    ELSE DistinctQueries(IF queries[n] # "" THEN AddOnce(out, queries[n]) ELSE out,
                         queries, n + 1)

\* for q in queries: for lookup in lookups: for nm, it in lookup.items(): ...
RECURSIVE KeywordScan(_, _, _, _, _, _)
KeywordScan(out, queries, lookups, qi, li, ki) ==
    IF qi > Len(queries) THEN out
    ELSE IF li > Len(lookups) THEN KeywordScan(out, queries, lookups, qi + 1, 1, 1)
    ELSE IF ki > Len(DictKeys(lookups[li], 1)) THEN KeywordScan(out, queries, lookups, qi, li + 1, 1)
    ELSE KeywordScan(IF Contains(DictKeys(lookups[li], 1)[ki], queries[qi])
                     THEN AddOnce(out, DictGet(lookups[li], DictKeys(lookups[li], 1)[ki]))
                     ELSE out,
                     queries, lookups, qi, li, ki + 1)

_find_items_by_keyword(menu, text, synonyms) ==
    KeywordScan(<< >>,
                DistinctQueries(<< >>, Queries(Lower(Strip(text)), text, synonyms), 1),
                ItemLookups(menu), 1, 1, 1)

_find_category_in_text(menu, text, synonyms) ==
    IF Strip(text) = "" THEN 0
    ELSE FirstLookup(<< menu._index.cats_by_name_raw, menu._index.cats_by_name_norm,
                        menu._index.cats_by_name_norm_syn >>,
                     Queries(Lower(Strip(text)), Strip(text), synonyms),
                     << 70, 70, 70 >>, 1)

(***************************************************************************)
(* Modifiers / extras matching.  "" stands for None, 0 for no extra.       *)
(***************************************************************************)
NormAll(texts, synonyms) == [i \in 1..Len(texts) |-> _normalize_text(texts[i], synonyms)]

\* [norm[i] for i if texts[i]]
RECURSIVE NormOfGiven(_, _, _)
NormOfGiven(texts, norm, n) ==
    IF n > Len(texts) THEN << >>
    ELSE (IF texts[n] = "" THEN << >> ELSE << norm[n] >>) \o NormOfGiven(texts, norm, n + 1)

\* the first option whose normal form is best ("" for None)
OptionOfBest(options, o, best) ==
    IF best = "" \/ ~\E i \in 1..Len(options) : o[i] = best THEN ""
    ELSE options[SetMin({i \in 1..Len(options) : o[i] = best})]

\* _match_choice on the normal forms o of the options and m of the message
MatchNormal(options, o, m) ==
    IF m = "" THEN ""
    ELSE IF \E i \in 1..Len(options) : o[i] = m
         THEN options[SetMin({i \in 1..Len(options) : o[i] = m})]
    ELSE IF \E i \in 1..Len(options) : o[i] # "" /\ Contains(m, o[i])
         THEN options[SetMin({i \in 1..Len(options) : o[i] # "" /\ Contains(m, o[i])})]
    ELSE OptionOfBest(options, o, _fuzzy_best_key(NormOfGiven(options, o, 1), m, 65))

_match_choice(options, msg, synonyms) ==
    MatchNormal(options, NormAll(options, synonyms), _normalize_text(msg, synonyms))

AddPicked(picked, ch) == IF ch # "" THEN AddOnce(picked, ch) ELSE picked

RECURSIVE PickChoices(_, _, _, _, _)
PickChoices(picked, options, parts, n, synonyms) ==
    IF n > Len(parts) THEN picked
    ELSE PickChoices(AddPicked(picked, _match_choice(options, parts[n], synonyms)),
                     options, parts, n + 1, synonyms)

MultiOfNormal(options, m, synonyms) ==
    IF m = "" THEN << >> ELSE PickChoices(<< >>, options, _split_intents(m), 1, synonyms)

_match_multi_choices(options, msg, synonyms) ==
    MultiOfNormal(options, _normalize_text(msg, synonyms), synonyms)

ExtraNamesOf(extras) == [i \in 1..Len(extras) |-> Strip(extras[i].name)]

\* the first extra whose normal name is best (0 for None)
ExtraOfBest(names_l, best) ==
    IF best = "" \/ ~\E i \in 1..Len(names_l) : names_l[i] = best THEN 0
    ELSE SetMin({i \in 1..Len(names_l) : names_l[i] = best})

MatchExtraNormal(names, names_l, m) ==
    IF m = "" THEN 0
    ELSE ExtraOfBest(names_l, _fuzzy_best_key(NormOfGiven(names, names_l, 1), m, 66))

MatchExtraNames(names, msg, synonyms) ==
    MatchExtraNormal(names, NormAll(names, synonyms), _normalize_text(msg, synonyms))

_match_extra(extras, msg, synonyms) == MatchExtraNames(ExtraNamesOf(extras), msg, synonyms)

\* the modifiers of the new schema, each with its key, required, multi and options
_get_item_modifiers(item) == item.modifiers

\* sum(_extract_price_delta(x) for x in picked)
RECURSIVE SumDeltas(_, _)
SumDeltas(picked, n) ==
    IF n > Len(picked) THEN 0 ELSE _extract_price_delta(picked[n]) + SumDeltas(picked, n + 1)

(***************************************************************************)
(* Conversation intent helpers.                                            *)
(***************************************************************************)
CATEGORY_ALIASES(concept) ==
    CASE concept = "drinks" -> << "drinks", "beverages", "soft drinks", "hot drinks" >>
      [] concept = "sides" -> << "sides", "extras", "side dishes", "small plates" >>
      [] concept = "desserts" -> << "desserts", "sweet", "sweets", "pudding" >>
      [] OTHER -> << >>

_is_continue_order(msg_norm) ==
    /\ msg_norm # ""
    /\ \/ msg_norm \in _CONTINUE_ORDER
       \/ StartsWith(msg_norm, "and ")
       \/ StartsWith(msg_norm, "add ")

\* "" stands for None
_concept_from_message(msg_norm) ==
    IF Contains(msg_norm, "drink") \/ Contains(msg_norm, "beverage") THEN "drinks"
    ELSE IF Contains(msg_norm, "side") \/ Contains(msg_norm, "extra") THEN "sides"
    ELSE IF Contains(msg_norm, "dessert") \/ Contains(msg_norm, "sweet")
            \/ Contains(msg_norm, "pudding") THEN "desserts"
    ELSE ""

\* for alias in CATEGORY_ALIASES.get(concept, []): the first category found
RECURSIVE CategoryOfAlias(_, _, _, _)
CategoryOfAliasAt(menu, aliases, synonyms, n, cat) ==
    IF cat # 0 THEN cat ELSE CategoryOfAlias(menu, aliases, synonyms, n + 1)

CategoryOfAlias(menu, aliases, synonyms, n) ==
    IF n > Len(aliases) THEN 0
    ELSE CategoryOfAliasAt(menu, aliases, synonyms, n,
                           _find_category_in_text(menu, aliases[n], synonyms))

_find_category_by_concept(menu, concept, synonyms) ==
    CategoryOfAlias(menu, CATEGORY_ALIASES(concept), synonyms, 1)

_all_category_names(menu) ==
    SelectSeq([c \in 1..Len(menu.categories) |-> Strip(menu.categories[c].name)],
              LAMBDA n : n # "")

\* one of the closing phrases of the question stands at s[p]
IsHaveAt(s, p) ==
    \E t \in {"do you have", "have you got", "are there", "is there"} :
        /\ p + Len(t) - 1 <= Len(s)
        /\ SubSeq(s, p, p + Len(t) - 1) = t
        /\ WordBoundary(s, p + Len(t) - 1)

\* the first index >= p at which a closing phrase follows a space, 0 when none does
RECURSIVE FindHave(_, _)
FindHave(s, p) ==
    IF p > Len(s) THEN 0
    ELSE IF At(s, p - 1) = " " /\ IsHaveAt(s, p) THEN p
    ELSE FindHave(s, p + 1)

RECURSIVE WhatFrom(_, _)
WhatAt(s, w, p) == IF p > 0 THEN Strip(SubSeq(s, w + 5, p - 2)) ELSE WhatFrom(s, w + 1)

WhatFrom(s, w) ==
    IF w > Len(s) - 4 THEN ""
    ELSE WhatAt(s, w, IF SubSeq(s, w, w + 4) = "what " /\ WordBoundary(s, w - 1)
                      THEN FindHave(s, w + 7)
                      ELSE 0)

\* re.search(r"\bwhat\s+(.+?)\s+(?:do you have|have you got|are there|is there)\??\b",
\* msg_norm) on normalised text (single spaces, no punctuation): group 1 stripped, ""
\* when there is no match
WhatQuestion(msg_norm) == WhatFrom(msg_norm, 1)

(***************************************************************************)
(* Cart and state.  A cart line is a record; the markers _needs_modifiers, *)
(* _first_mod_index and _needs_extras that the add flow leaves on a line   *)
(* are fields that are FALSE / 0 when the key is absent.  The conversation *)
(* state is a dict: a function whose domain is the set of its keys.        *)
(***************************************************************************)
EmptyDict == << >>
Put(d, k, v) == [y \in (DOMAIN d) \cup {k} |-> IF y = k THEN v ELSE d[y]]
Pop(d, k) == [y \in (DOMAIN d) \ {k} |-> d[y]]
Get(d, k, default) == IF k \in DOMAIN d THEN d[k] ELSE default

\* The values json.loads gives: None, a bool, an int, a str, a list of values or
\* a dict of values.  A state is a dict of such values.
JNull == [type |-> "null"]
JBool(b) == [type |-> "bool", bool |-> b]
JInt(n) == [type |-> "int", int |-> n]
JStr(s) == [type |-> "str", str |-> s]
JList(l) == [type |-> "list", list |-> l]
JDict(d) == [type |-> "dict", dict |-> d]

\* [JStr(t) for t in texts]
Strs(texts) == [k \in 1..Len(texts) |-> JStr(texts[k])]

\* str(n) of an int
RECURSIVE Decimal(_)
Decimal(n) ==
    IF n < 0 THEN "-" \o Decimal(0 - n)
    ELSE IF n < 10 THEN At(DigitAlphabet, n + 1)
    ELSE Decimal(n \div 10) \o At(DigitAlphabet, (n % 10) + 1)

\* str(v) of None, a bool, an int or a str
str(v) ==
    CASE v.type = "str" -> v.str
      [] v.type = "int" -> Decimal(v.int)
      [] v.type = "bool" -> IF v.bool THEN "True" ELSE "False"
      [] v.type = "null" -> "None"

\* [str(v) for v in values]
TextsOf(values) == [k \in 1..Len(values) |-> str(values[k])]

\* state.get(key) where it is compared with a text: "" stands for a value that is
\* no str, which equals no text
GetStr(state, key) ==
    IF key \in DOMAIN state /\ state[key].type = "str" THEN state[key].str ELSE ""

\* state.get(key) where isinstance(..., list) is asked for: << >> for None and for
\* every value that is no list
GetList(state, key) ==
    IF key \in DOMAIN state /\ state[key].type = "list" THEN state[key].list ELSE << >>

\* int(text): the text stripped is an optional sign and decimal digits, or ValueError
IntOfText(t, from) ==
    IF from <= Len(t) /\ SkipDigits(t, from) = Len(t) + 1
    THEN [raises |-> "",
          value |-> IF At(t, 1) = "-" THEN 0 - ParseNat(SubSeq(t, from, Len(t)))
                    ELSE ParseNat(SubSeq(t, from, Len(t)))]
    ELSE [raises |-> "ValueError", value |-> -1]

\* int(v): the number, or the exception it raises (value is then -1)
int(v) ==
    IF v.type = "int" THEN [raises |-> "", value |-> v.int]
    ELSE IF v.type = "bool" THEN [raises |-> "", value |-> IF v.bool THEN 1 ELSE 0]
    ELSE IF v.type = "str"
    THEN IntOfText(Strip(v.str),
                   IF StartsWith(Strip(v.str), "-") \/ StartsWith(Strip(v.str), "+")
                   THEN 2 ELSE 1)
    ELSE [raises |-> "TypeError", value |-> -1]

(***************************************************************************)
(* json.loads, on texts without fractions, exponents, escapes and white    *)
(* space other than blanks (the stored texts of the model hold none).  A   *)
(* parse is the value and the position after it, or no parse at all: the   *)
(* JSONDecodeError of json.loads.                                          *)
(***************************************************************************)
Parsed(value, next) == [ok |-> TRUE, value |-> value, next |-> next]
NoParse == [ok |-> FALSE, value |-> JNull, next |-> 0]

\* t[p], "" outside the text
CharAt(t, p) == IF p >= 1 /\ p <= Len(t) THEN At(t, p) ELSE ""

\* the text holds word at p
WordAt(t, p, word) == p + Len(word) - 1 <= Len(t) /\ SubSeq(t, p, p + Len(word) - 1) = word

\* the position of the first quote at or after p, 0 when there is none
RECURSIVE FindQuote(_, _)
FindQuote(t, p) ==
    IF p > Len(t) THEN 0 ELSE IF At(t, p) = "\"" THEN p ELSE FindQuote(t, p + 1)

\* a str that opens at p and closes at q
ParseString(t, p, q) == IF q = 0 THEN NoParse ELSE Parsed(JStr(SubSeq(t, p + 1, q - 1)), q + 1)

\* -?(?:0|[1-9]\d*) with its first digit at d and its end before e
ParseDigits(t, p, d, e) ==
    IF e = d THEN NoParse
    ELSE Parsed(JInt(IF p < d THEN 0 - ParseNat(SubSeq(t, d, e - 1))
                     ELSE ParseNat(SubSeq(t, d, e - 1))), e)

ParseNumber(t, p, d) ==
    ParseDigits(t, p, d, IF CharAt(t, d) = "0" THEN d + 1 ELSE SkipDigits(t, d))

RECURSIVE ParseValue(_, _)
RECURSIVE ParseElements(_, _, _)
RECURSIVE ParseMembers(_, _, _)

\* after a value of a list: "]" ends the list, "," asks for another value
ElementDelim(t, q, acc) ==
    IF CharAt(t, q) = "]" THEN Parsed(JList(acc), q + 1)
    ELSE IF CharAt(t, q) = "," THEN ParseElements(t, q + 1, acc)
    ELSE NoParse

AfterElement(t, v, acc) ==
    IF v.ok THEN ElementDelim(t, SkipSpaces(t, v.next), Append(acc, v.value)) ELSE NoParse

ParseElements(t, p, acc) == AfterElement(t, ParseValue(t, p), acc)

\* a list whose "[" is before p
ParseArray(t, p) ==
    IF CharAt(t, p) = "]" THEN Parsed(JList(<< >>), p + 1) ELSE ParseElements(t, p, << >>)

\* after a value of a dict: "}" ends the dict, "," asks for another key
MemberDelim(t, q, acc) ==
    IF CharAt(t, q) = "}" THEN Parsed(JDict(acc), q + 1)
    ELSE IF CharAt(t, q) = "," THEN ParseMembers(t, SkipSpaces(t, q + 1), acc)
    ELSE NoParse

AfterMember(t, key, v, acc) ==
    IF v.ok THEN MemberDelim(t, SkipSpaces(t, v.next), Put(acc, key, v.value)) ELSE NoParse

MemberValue(t, key, q, acc) ==
    IF CharAt(t, q) = ":" THEN AfterMember(t, key, ParseValue(t, q + 1), acc) ELSE NoParse

MemberKey(t, p, q, acc) ==
    IF q = 0 THEN NoParse
    ELSE MemberValue(t, SubSeq(t, p + 1, q - 1), SkipSpaces(t, q + 1), acc)

\* "key": value, with the quote that opens the key at p
ParseMembers(t, p, acc) ==
    IF CharAt(t, p) = "\"" THEN MemberKey(t, p, FindQuote(t, p + 1), acc) ELSE NoParse

\* a dict whose "{" is before p
ParseObject(t, p) ==
    IF CharAt(t, p) = "}" THEN Parsed(JDict(EmptyDict), p + 1) ELSE ParseMembers(t, p, EmptyDict)

\* the value that starts at p
ValueAt(t, p) ==
    IF CharAt(t, p) = "\"" THEN ParseString(t, p, FindQuote(t, p + 1))
    ELSE IF CharAt(t, p) = "[" THEN ParseArray(t, SkipSpaces(t, p + 1))
    ELSE IF CharAt(t, p) = "{" THEN ParseObject(t, SkipSpaces(t, p + 1))
    ELSE IF WordAt(t, p, "null") THEN Parsed(JNull, p + 4)
    ELSE IF WordAt(t, p, "true") THEN Parsed(JBool(TRUE), p + 4)
    ELSE IF WordAt(t, p, "false") THEN Parsed(JBool(FALSE), p + 5)
    ELSE IF CharAt(t, p) = "-" THEN ParseNumber(t, p, p + 1)
    ELSE ParseNumber(t, p, p)

ParseValue(t, p) == ValueAt(t, SkipSpaces(t, p))

\* the whole text is one value
WholeText(t, v) == IF v.ok /\ SkipSpaces(t, v.next) = Len(t) + 1 THEN v ELSE NoParse

json_loads(t) == WholeText(t, ParseValue(t, 1))

\* x or default, for a text or None ("" stands for both)
OrText(x, default) == IF x = "" THEN default ELSE x

\* v if isinstance(v, list) else [], [] on an exception; the lists stored in the
\* model are empty, a line of a cart being kept as a record here
ListOrEmpty(v) == IF v.ok /\ v.value.type = "list" THEN v.value.list ELSE << >>

_load_cart(items_json) == ListOrEmpty(json_loads(OrText(items_json, "[]")))

\* a value that is no dict kept, under a key of its own
DictOrEmpty_kept(v) ==
    IF v.ok /\ v.value.type = "dict" THEN v.value.dict
    ELSE IF v.ok THEN Put(EmptyDict, "value", v.value)
    ELSE EmptyDict

\* v if isinstance(v, dict) else {}, {} on an exception
DictOrEmpty(v) == IF v.ok /\ v.value.type = "dict" THEN v.value.dict ELSE EmptyDict

_load_state(state_json) == DictOrEmpty(json_loads(OrText(state_json, "{}")))

RECURSIVE SumValues(_, _)
SumValues(d, keys) ==
    IF keys = {} THEN 0
    ELSE LET k == CHOOSE k \in keys : TRUE IN d[k] + SumValues(d, keys \ {k})

RECURSIVE SumPrices(_, _)
SumPrices(extras, n) ==
    IF n > Len(extras) THEN 0 ELSE extras[n].price + SumPrices(extras, n + 1)

\* _recalc_line_total with the extras left out of the sum
_recalc_line_total_without_extras(line) ==
    LET qty == IF line.qty = 0 THEN 1 ELSE line.qty
    IN  [line EXCEPT !.line_total =
            qty * (line.base_price
                   + SumValues(line.choice_price_deltas, DOMAIN line.choice_price_deltas))]

\* round(qty * (base + mods_total + extras_total), 2), in pence
_recalc_line_total(line) ==
    LET qty == IF line.qty = 0 THEN 1 ELSE line.qty
    IN  [line EXCEPT !.line_total =
            qty * (line.base_price
                   + SumValues(line.choice_price_deltas, DOMAIN line.choice_price_deltas)
                   + SumPrices(line.extras, 1))]

(***************************************************************************)
(* round(x, 2) where x has a third decimal.  A price of t thousandths is   *)
(* held as the double nearest to t / 1000, mantissa * 2^-e with a mantissa *)
(* of 53 bits; round gives the two-decimal value nearest to that double,   *)
(* which on a final 5 is the side of t / 1000 the double lies on (and the  *)
(* even neighbour when the double is t / 1000 itself).  The result is in   *)
(* pence.                                                                  *)
(***************************************************************************)
MantissaBits == 52

RECURSIVE Log2Above(_, _)
\* the k with 1000 * 2^k <= t < 1000 * 2^(k+1), for t >= 1000
Log2Above(t, k) == IF 2000 * (2 ^ k) <= t THEN Log2Above(t, k + 1) ELSE k

RECURSIVE Log2Below(_, _)
\* the j with t * 2^j >= 1000 > t * 2^(j-1), for 0 < t < 1000
Log2Below(t, j) == IF t * (2 ^ j) < 1000 THEN Log2Below(t, j + 1) ELSE j

\* e with 2^52 <= (t / 1000) * 2^e < 2^53
ExponentOf(t) ==
    IF t >= 1000 THEN MantissaBits - Log2Above(t, 0) ELSE MantissaBits + Log2Below(t, 0)

RECURSIVE Pow2Mod1000(_)
Pow2Mod1000(e) == IF e = 0 THEN 1 ELSE (2 * Pow2Mod1000(e - 1)) % 1000

\* (t * 2^e) mod 1000: 0 when the double is t / 1000, under 500 when the double is
\* below it, over 500 when the double is above it
MantissaRemainder(t) == ((t % 1000) * Pow2Mod1000(ExponentOf(t))) % 1000

\* round(x, 2) that takes every final 5 upwards
round_half_up(t) == (t + 5) \div 10

\* round(x, 2) of the double nearest to t / 1000
round(t) ==
    LET q == t \div 10
        d == t % 10
        r == IF t = 0 THEN 0 ELSE MantissaRemainder(t)
    IN  IF d < 5 THEN q
        ELSE IF d > 5 THEN q + 1
        ELSE IF r = 0 THEN (IF q % 2 = 0 THEN q ELSE q + 1)
        ELSE IF r < 500 THEN q ELSE q + 1

\* _recalc_line_total of a line of one unit without options or extras whose
\* base_price is in thousandths: qty * (base + 0.0 + 0.0) is base
_recalc_line_total_of_price(line) == [line EXCEPT !.line_total = round(line.base_price)]

RECURSIVE _cart_total_from(_, _)
_cart_total_from(cart, n) ==
    IF n > Len(cart) THEN 0 ELSE cart[n].line_total + _cart_total_from(cart, n + 1)

_cart_total(cart) == _cart_total_from(cart, 1)

\* state["pending_parts"] = existing + remaining_parts
_queue_pending_parts(state, remaining_parts) ==
    IF Len(remaining_parts) = 0 THEN state
    ELSE Put(state, "pending_parts", JList(GetList(state, "pending_parts") \o Strs(remaining_parts)))

\* _pop_pending_part taking the last phrase of the queue
_pop_pending_part_last(state) ==
    LET pending == GetList(state, "pending_parts")
    IN  IF Len(pending) = 0 THEN [part |-> "", state |-> state]
        ELSE [part |-> Strip(str(pending[Len(pending)])),
              state |-> IF Len(pending) > 1
                        THEN Put(state, "pending_parts",
                                 JList(SubSeq(pending, 1, Len(pending) - 1)))
                        ELSE Pop(state, "pending_parts")]

\* _pop_pending_part(state): the phrase popped ("" for None) and the state left
_pop_pending_part(state) ==
    LET pending == GetList(state, "pending_parts")
    IN  IF Len(pending) = 0 THEN [part |-> "", state |-> state]
        ELSE [part |-> Strip(str(Head(pending))),
              state |-> IF Len(pending) > 1
                        THEN Put(state, "pending_parts", JList(Tail(pending)))
                        ELSE Pop(state, "pending_parts")]

(***************************************************************************)
(* The texts handle_message is called with: the messages a user sends and  *)
(* the phrases a stored state may hold in pending_parts.  What the handler *)
(* derives from the text alone is computed once per text.                  *)
(***************************************************************************)
Messages ==
    { "doner wrap", "2x doner wrap", "margherita", "fries", "chicken",
      "doner wrap and fries", "large", "regular", "thin", "ham and olives",
      "cheese", "no extras", "no", "basket", "remove doner wrap", "hello", "asdf",
      "remove asdf", "confirm", "menu" }

PendingTexts == { "fries", "doner wrap" }

\* the messages sent to a conversation that starts with phrases queued
PendingMessages ==
    { "doner wrap", "margherita", "large", "thin", "ham and olives", "cheese",
      "no extras", "asdf" }

\* the messages sent to a menu that has an item with "and" in its name
SplitMessages ==
    { "salt and pepper chicken and fries", "fries and salt and pepper chicken",
      "fries, chicken wings", "fries & chicken wings", "fries + chicken wings",
      "fries and chicken wings", "0x fries", "2x fries", "remove fries", "basket" }

\* the messages sent to a conversation that orders, answers and removes
AddMessages ==
    { "doner wrap and margherita", "doner wrap", "2x doner wrap", "margherita", "fries",
      "large", "thin", "ham and olives", "no extras", "remove doner wrap" }

Texts == Messages \cup PendingTexts \cup AddMessages

COMMON_COMBOS ==
    << "salt and pepper", "salt & pepper", "sweet and sour", "sweet & sour",
       "hot and sour", "hot & sour" >>

\* what the loop of the add flow derives from one phrase: qty, text = _parse_qty_prefix(part)
PartOf(menu, synonyms, part, q) ==
    [part |-> part,
     qty |-> q.qty,
     item |-> _find_item_in_text(menu, q.text, synonyms),
     matches |-> _find_items_by_keyword(menu, q.text, synonyms),
     cat2 |-> _find_category_in_text(menu, q.text, synonyms)]

PartsFrom(menu, synonyms, parts) ==
    [n \in 1..Len(parts) |-> PartOf(menu, synonyms, parts[n], _parse_qty_prefix(parts[n]))]

\* the phrases of the add flow, each with what the loop derives from it
PartsOf(menu, synonyms, msg_raw) ==
    PartsFrom(menu, synonyms,
        _split_intents(
            _normalize_text(
                _protect_and_phrases(Lower(_strip_filler_prefix(msg_raw)),
                                     menu._index.and_phrases \o COMMON_COMBOS),
                synonyms)))

IsRemove(msg_norm) == StartsWith(msg_norm, "remove ") \/ StartsWith(msg_norm, "delete ")

\* a category lookup that is made only for a text that is there
CategoryIfAny(menu, text, synonyms) ==
    IF text = "" THEN 0 ELSE _find_category_in_text(menu, text, synonyms)

ConceptIfAny(menu, concept, synonyms) ==
    IF concept = "" THEN 0 ELSE _find_category_by_concept(menu, concept, synonyms)

\* what handle_message derives from the text of the message alone
AnalyseNormal(menu, synonyms, msg_raw, msg_norm) ==
    [msg_raw |-> msg_raw,
     msg_norm |-> msg_norm,
     is_remove |-> IsRemove(msg_norm),
     \* msg_norm.split(" ", 1)[1].strip()
     target |-> IF IsRemove(msg_norm)
                THEN _find_item_in_text(menu, Strip(SubSeq(msg_norm, 8, Len(msg_norm))),
                                        synonyms)
                ELSE 0,
     wanted |-> WhatQuestion(msg_norm),
     catq |-> CategoryIfAny(menu, WhatQuestion(msg_norm), synonyms),
     cat |-> _find_category_in_text(menu, msg_norm, synonyms),
     parts |-> PartsOf(menu, synonyms, msg_raw),
     menu |-> msg_norm \in {"menu", "show menu", "what do you have",
                            "what do you have?", "what have you got"}
              \/ Contains(msg_norm, "what do you have"),
     greeting |-> _is_greeting_only(msg_norm),
     continue |-> _is_continue_order(msg_norm),
     catc |-> ConceptIfAny(menu, _concept_from_message(msg_norm), synonyms)]

Analyse(menu, synonyms, message) ==
    AnalyseNormal(menu, synonyms, Strip(message), _normalize_text(Strip(message), synonyms))

\* the answer to a modifier: _match_multi_choices or << _match_choice >>
OneChoice(chosen) == IF chosen = "" THEN << >> ELSE << chosen >>

ChoiceOf(mod, msg_raw, synonyms) ==
    IF mod.multi THEN _match_multi_choices(mod.options, msg_raw, synonyms)
    ELSE OneChoice(_match_choice(mod.options, msg_raw, synonyms))

\* synonyms = _menu_synonyms(menu_dict); menu = _build_menu_index(menu_dict, synonyms)
Synonyms == _menu_synonyms(Menu)
IndexedMenu == _build_menu_index(Menu, Synonyms)

ItemIds == 1..Len(Menu.items)

Analysis == [t \in Texts |-> Analyse(IndexedMenu, Synonyms, t)]

Choices ==
    [t \in Texts |-> [i \in ItemIds |->
        [m \in 1..Len(_get_item_modifiers(Menu.items[i])) |->
            ChoiceOf(_get_item_modifiers(Menu.items[i])[m], Strip(t), Synonyms)]]]

Extras ==
    [t \in Texts |-> [i \in ItemIds |-> _match_extra(Menu.items[i].extras, Strip(t), Synonyms)]]

\* the menu objects a caller holds: the document as loaded, and that object once a
\* call, and a further call, has put its index on it
IndexedSynonyms == _menu_synonyms(IndexedMenu)
Reindexed == _build_menu_index(IndexedMenu, IndexedSynonyms)
ReindexedSynonyms == _menu_synonyms(Reindexed)
IndexedAgain == _build_menu_index(Reindexed, ReindexedSynonyms)

\* a menu with an item that has "and" in its name, as loaded and with its index
ComboMenu ==
    [Menu EXCEPT !.items =
        Append(@, [id |-> "salt_pepper_chicken", name |-> "Salt and Pepper Chicken",
                   category_id |-> "sides", base_price |-> 550,
                   modifiers |-> << >>, extras |-> << >>])]
ComboSynonyms == _menu_synonyms(ComboMenu)
IndexedCombo == _build_menu_index(ComboMenu, ComboSynonyms)
ReindexedComboSynonyms == _menu_synonyms(IndexedCombo)
ReindexedCombo == _build_menu_index(IndexedCombo, ReindexedComboSynonyms)

\* a menu with an item whose name is close to the name of its category, as loaded and
\* with its index
NameMenu ==
    [Menu EXCEPT !.items =
        Append(@, [id |-> "noodle_box", name |-> "Noodle Box",
                   category_id |-> "noodles", base_price |-> 700,
                   modifiers |-> << >>, extras |-> << >>])]
NameSynonyms == _menu_synonyms(NameMenu)
IndexedNames == _build_menu_index(NameMenu, NameSynonyms)
ReindexedNameSynonyms == _menu_synonyms(IndexedNames)
ReindexedNames == _build_menu_index(IndexedNames, ReindexedNameSynonyms)

\* the name of every item of it, as the menu writes it, in lower case and in capitals
NameMessages ==
    { "Doner Wrap", "doner wrap", "DONER WRAP", "Margherita", "margherita", "MARGHERITA",
      "Fries", "fries", "FRIES", "Chicken Burger", "chicken burger", "CHICKEN BURGER",
      "Chicken Wings", "chicken wings", "CHICKEN WINGS",
      "Noodle Box", "noodle box", "NOODLE BOX" }

MenuObjects ==
    { Menu, IndexedMenu, Reindexed, ComboMenu, IndexedCombo, NameMenu, IndexedNames }

\* menu = _build_menu_index(menu_dict, synonyms) of each of them: menu_dict itself
\* after the call
Indexed ==
    (Menu :> IndexedMenu) @@ (IndexedMenu :> Reindexed)
        @@ (Reindexed :> IndexedAgain)
        @@ (ComboMenu :> IndexedCombo) @@ (IndexedCombo :> ReindexedCombo)
        @@ (NameMenu :> IndexedNames) @@ (IndexedNames :> ReindexedNames)

\* what each of the texts gives on a menu object, menu being that object indexed
AnalysisFor(menu, synonyms, texts) == [t \in texts |-> Analyse(menu, synonyms, t)]

ChoicesFor(menu, synonyms, texts) ==
    [t \in texts |-> [i \in 1..Len(menu.items) |->
        [m \in 1..Len(_get_item_modifiers(menu.items[i])) |->
            ChoiceOf(_get_item_modifiers(menu.items[i])[m], Strip(t), synonyms)]]]

ExtrasFor(menu, synonyms, texts) ==
    [t \in texts |-> [i \in 1..Len(menu.items) |->
        _match_extra(menu.items[i].extras, Strip(t), synonyms)]]

\* a call with the arguments of a call already tabulated gives what that call gave
SameCall(menu, synonyms, menu0, synonyms0) == menu = menu0 /\ synonyms = synonyms0

ComboAnalysis == AnalysisFor(IndexedCombo, ComboSynonyms, SplitMessages)
ComboChoices == ChoicesFor(IndexedCombo, ComboSynonyms, SplitMessages)
ComboExtras == ExtrasFor(IndexedCombo, ComboSynonyms, SplitMessages)

NameAnalysis == AnalysisFor(IndexedNames, NameSynonyms, NameMessages)
NameChoices == ChoicesFor(IndexedNames, NameSynonyms, NameMessages)
NameExtras == ExtrasFor(IndexedNames, NameSynonyms, NameMessages)

AnalysisOn ==
    (Menu :> Analysis)
        @@ (IndexedMenu :>
                IF SameCall(Reindexed, IndexedSynonyms, IndexedMenu, Synonyms) THEN Analysis
                ELSE AnalysisFor(Reindexed, IndexedSynonyms, Texts))
        @@ (Reindexed :>
                IF SameCall(IndexedAgain, ReindexedSynonyms, IndexedMenu, Synonyms) THEN Analysis
                ELSE AnalysisFor(IndexedAgain, ReindexedSynonyms, Texts))
        @@ (ComboMenu :> ComboAnalysis)
        @@ (IndexedCombo :>
                IF SameCall(ReindexedCombo, ReindexedComboSynonyms, IndexedCombo, ComboSynonyms)
                THEN ComboAnalysis
                ELSE AnalysisFor(ReindexedCombo, ReindexedComboSynonyms, SplitMessages))
        @@ (NameMenu :> NameAnalysis)
        @@ (IndexedNames :>
                IF SameCall(ReindexedNames, ReindexedNameSynonyms, IndexedNames, NameSynonyms)
                THEN NameAnalysis
                ELSE AnalysisFor(ReindexedNames, ReindexedNameSynonyms, NameMessages))

ChoicesOn ==
    (Menu :> Choices)
        @@ (IndexedMenu :>
                IF SameCall(Reindexed, IndexedSynonyms, IndexedMenu, Synonyms) THEN Choices
                ELSE ChoicesFor(Reindexed, IndexedSynonyms, Texts))
        @@ (Reindexed :>
                IF SameCall(IndexedAgain, ReindexedSynonyms, IndexedMenu, Synonyms) THEN Choices
                ELSE ChoicesFor(IndexedAgain, ReindexedSynonyms, Texts))
        @@ (ComboMenu :> ComboChoices)
        @@ (IndexedCombo :>
                IF SameCall(ReindexedCombo, ReindexedComboSynonyms, IndexedCombo, ComboSynonyms)
                THEN ComboChoices
                ELSE ChoicesFor(ReindexedCombo, ReindexedComboSynonyms, SplitMessages))
        @@ (NameMenu :> NameChoices)
        @@ (IndexedNames :>
                IF SameCall(ReindexedNames, ReindexedNameSynonyms, IndexedNames, NameSynonyms)
                THEN NameChoices
                ELSE ChoicesFor(ReindexedNames, ReindexedNameSynonyms, NameMessages))

ExtrasOn ==
    (Menu :> Extras)
        @@ (IndexedMenu :>
                IF SameCall(Reindexed, IndexedSynonyms, IndexedMenu, Synonyms) THEN Extras
                ELSE ExtrasFor(Reindexed, IndexedSynonyms, Texts))
        @@ (Reindexed :>
                IF SameCall(IndexedAgain, ReindexedSynonyms, IndexedMenu, Synonyms) THEN Extras
                ELSE ExtrasFor(IndexedAgain, ReindexedSynonyms, Texts))
        @@ (ComboMenu :> ComboExtras)
        @@ (IndexedCombo :>
                IF SameCall(ReindexedCombo, ReindexedComboSynonyms, IndexedCombo, ComboSynonyms)
                THEN ComboExtras
                ELSE ExtrasFor(ReindexedCombo, ReindexedComboSynonyms, SplitMessages))
        @@ (NameMenu :> NameExtras)
        @@ (IndexedNames :>
                IF SameCall(ReindexedNames, ReindexedNameSynonyms, IndexedNames, NameSynonyms)
                THEN NameExtras
                ELSE ExtrasFor(ReindexedNames, ReindexedNameSynonyms, NameMessages))

(***************************************************************************)
(* handle_message.  A reply is the sequence of its parts, each a kind and  *)
(* the names it lists; the wording is left out.  Indices kept in the state *)
(* are 0-based as in the source; cart[n + 1] is Python's cart[n].          *)
(***************************************************************************)
Seg(kind, detail) == << [kind |-> kind, detail |-> detail] >>
\* depth: how deep the calls of handle_message made within the call are nested
Result(text, cart, state) == [reply |-> text, cart |-> cart, state |-> state, depth |-> 0]

\* the exception of int(state.get(key, -1)), "" when it raises none
Raised(state, key) == int(Get(state, key, JInt(-1))).raises

\* the call ends in the exception: nothing is returned, and the caller keeps the
\* cart and the state it had
Raise(exception, cart, state) == Result(Seg("raise", << exception >>), cart, state)

\* the remove / delete loop with the line's total left as it was
RemoveOne_stale_total(cart, target_id) ==
    LET at == {n \in 1..Len(cart) : target_id # "" /\ cart[n].item_id = target_id}
    IN  IF at = {} THEN [removed_any |-> FALSE, cart |-> cart]
        ELSE LET n == SetMin(at)
                 qty == IF cart[n].qty = 0 THEN 1 ELSE cart[n].qty
             IN  [removed_any |-> TRUE,
                  cart |-> IF qty > 1
                           THEN [cart EXCEPT ![n].qty = qty - 1]
                           ELSE SubSeq(cart, 1, n - 1) \o SubSeq(cart, n + 1, Len(cart))]

\* what is shown, and the configuration that was going on is dropped
Display_reset(text, cart, state) == Result(text, cart, Pop(Pop(state, "mode"), "line_index"))

\* basket, confirm, menu and greeting: what is shown, cart and state as they were
Display(text, cart, state) == Result(text, cart, state)

\* nothing to remove, and the state of the conversation is dropped
NotRemoved_reset(kind, cart, state) == Result(Seg(kind, << >>), cart, EmptyDict)

\* nothing to remove: the re-prompt, cart and state as they were
NotRemoved(kind, cart, state) == Result(Seg(kind, << >>), cart, state)

\* the remove / delete loop with the line dropped whatever its qty
RemoveOne_whole_line(cart, target_id) ==
    LET at == {n \in 1..Len(cart) : target_id # "" /\ cart[n].item_id = target_id}
    IN  IF at = {} THEN [removed_any |-> FALSE, cart |-> cart]
        ELSE [removed_any |-> TRUE,
              cart |-> SubSeq(cart, 1, SetMin(at) - 1) \o SubSeq(cart, SetMin(at) + 1, Len(cart))]

\* the remove / delete loop: the first line of the item loses one unit or goes
RemoveOne(cart, target_id) ==
    LET at == {n \in 1..Len(cart) : target_id # "" /\ cart[n].item_id = target_id}
    IN  IF at = {} THEN [removed_any |-> FALSE, cart |-> cart]
        ELSE LET n == SetMin(at)
                 qty == IF cart[n].qty = 0 THEN 1 ELSE cart[n].qty
             IN  [removed_any |-> TRUE,
                  cart |-> IF qty > 1
                           THEN [cart EXCEPT ![n] = _recalc_line_total([@ EXCEPT !.qty = qty - 1])]
                           ELSE SubSeq(cart, 1, n - 1) \o SubSeq(cart, n + 1, Len(cart))]

\* the index of the first required modifier, Len(mods) when there is none
FirstRequired(mods, from) ==
    LET req == {k \in from..(Len(mods) - 1) : mods[k + 1].required}
    IN  IF req = {} THEN Len(mods) ELSE SetMin(req)

\* new_line of the add flow, with the markers of what it still needs
NewLine(item, qty) ==
    LET mods == _get_item_modifiers(item)
        first_required == FirstRequired(mods, 0)
        line == _recalc_line_total(
                    [item_id |-> item.id, name |-> item.name, qty |-> qty,
                     base_price |-> item.base_price, choices |-> EmptyDict,
                     choice_price_deltas |-> EmptyDict, extras |-> << >>, notes |-> "",
                     line_total |-> 0, _needs_modifiers |-> FALSE, _first_mod_index |-> 0,
                     _needs_extras |-> FALSE])
    IN  [line EXCEPT !._needs_modifiers = first_required < Len(mods),
                     !._first_mod_index = IF first_required < Len(mods) THEN first_required ELSE 0,
                     !._needs_extras = Len(item.extras) > 0]

ItemNames(menu, ids) == [k \in 1..Len(ids) |-> menu.items[ids[k]].name]

\* the loop stopped after the first line it adds
AddLoop_first_only(menu, cart, parts, n, added_any) ==
    LET found == {k \in 1..Len(parts) : parts[k].item # 0}
    IN  IF found = {}
        THEN [ret |-> "", detail |-> << >>, cart |-> cart, added_any |-> FALSE]
        ELSE [ret |-> "", detail |-> << >>,
              cart |-> Append(cart, NewLine(menu.items[parts[SetMin(found)].item],
                                            parts[SetMin(found)].qty)),
              added_any |-> TRUE]

\* for part in parts: ...  (ret is "" when the loop runs to its end)
RECURSIVE AddLoop(_, _, _, _, _)
AddLoop(menu, cart, parts, n, added_any) ==
    IF n > Len(parts)
    THEN [ret |-> "", detail |-> << >>, cart |-> cart, added_any |-> added_any]
    ELSE LET p == parts[n]
         IN  IF p.item = 0
             THEN IF Len(p.matches) > 1
                  THEN [ret |-> "which_one",
                        detail |-> ItemNames(menu, SubSeq(p.matches, 1,
                                     IF Len(p.matches) < 8 THEN Len(p.matches) ELSE 8)),
                        cart |-> cart, added_any |-> added_any]
                  ELSE IF p.cat2 # 0 /\ ~added_any
                  THEN [ret |-> "category", detail |-> << menu.categories[p.cat2].name >>,
                        cart |-> cart, added_any |-> added_any]
                  ELSE AddLoop(menu, cart, parts, n + 1, added_any)
             ELSE AddLoop(menu, Append(cart, NewLine(menu.items[p.item], p.qty)), parts, n + 1, TRUE)

ClearModifierMarkers(line) ==
    [line EXCEPT !._needs_modifiers = FALSE, !._first_mod_index = 0]

\* 1) Modifiers take priority: the first line marked _needs_modifiers that can be asked
RECURSIVE ScanModifiers(_, _, _)
ScanModifiers(menu, cart, n) ==
    IF n > Len(cart) THEN [found |-> FALSE, cart |-> cart, line_index |-> 0, mod_index |-> 0]
    ELSE IF ~cart[n]._needs_modifiers THEN ScanModifiers(menu, cart, n + 1)
    ELSE LET cleared == [cart EXCEPT ![n] = ClearModifierMarkers(@)]
             i == ItemById(menu, cart[n].item_id)
             mod_index == cart[n]._first_mod_index
         IN  IF i # 0 /\ mod_index < Len(_get_item_modifiers(menu.items[i]))
             THEN [found |-> TRUE, cart |-> cleared, line_index |-> n - 1,
                   mod_index |-> mod_index]
             ELSE ScanModifiers(menu, cleared, n + 1)

\* 2) Then extras: the first line marked _needs_extras whose item has extras
RECURSIVE ScanExtras(_, _, _)
ScanExtras(menu, cart, n) ==
    IF n > Len(cart) THEN [found |-> FALSE, cart |-> cart, line_index |-> 0]
    ELSE IF ~cart[n]._needs_extras THEN ScanExtras(menu, cart, n + 1)
    ELSE LET cleared == [cart EXCEPT ![n]._needs_extras = FALSE]
             i == ItemById(menu, cart[n].item_id)
         IN  IF i # 0 /\ Len(menu.items[i].extras) > 0
             THEN [found |-> TRUE, cart |-> cleared, line_index |-> n - 1]
             ELSE ScanExtras(menu, cleared, n + 1)

ExtraNames(item) == [k \in 1..Len(item.extras) |-> item.extras[k].name]

\* the help message, and the basket is emptied
Help_clears(cart, state) == Result(Seg("help", << >>), << >>, state)

\* return _dynamic_help(menu), _dump_cart(cart), _dump_state(state)
Help(cart, state) == Result(Seg("help", << >>), cart, state)

\* the add item flow and what follows it (lines 941-1102 of the source)
AddFlow(menu, a, cart, state) ==
    LET loop == AddLoop(menu, cart, a.parts, 1, FALSE)
        mods == ScanModifiers(menu, loop.cart, 1)
        extras == ScanExtras(menu, mods.cart, 1)
    IN  IF loop.ret # "" THEN Result(Seg(loop.ret, loop.detail), loop.cart, state)
        ELSE IF loop.added_any
        THEN IF mods.found
             THEN LET i == ItemById(menu, mods.cart[mods.line_index + 1].item_id)
                  IN  Result(Seg("modifier_prompt",
                                 _get_item_modifiers(menu.items[i])[mods.mod_index + 1].options),
                             mods.cart,
                             Put(Put(Put(state, "mode", JStr("awaiting_modifier")),
                                     "line_index", JInt(mods.line_index)),
                                 "mod_index", JInt(mods.mod_index)))
             ELSE IF extras.found
             THEN Result(Seg("extras_prompt",
                             ExtraNames(menu.items[ItemById(menu, extras.cart[extras.line_index + 1].item_id)])),
                         extras.cart,
                         Put(Put(state, "mode", JStr("awaiting_extras")),
                             "line_index", JInt(extras.line_index)))
             ELSE Result(Seg("got_it", << >>), extras.cart, state)
        ELSE IF a.continue
        THEN IF a.catc # 0
             THEN Result(Seg("category", << menu.categories[a.catc].name >>), cart, state)
             ELSE Result(Seg("what_to_add", _all_category_names(menu)), cart, state)
        ELSE Help(cart, state)

\* the modifier after mod_index, required or not
NextRequired_no_skip(mods, mod_index) == mod_index + 1

\* the modifier after mod_index that is required, Len(mods) when there is none
NextRequired(mods, mod_index) == FirstRequired(mods, mod_index + 1)

\* the line after an answer to modifier mod of it; one choice is kept as the
\* one-element sequence of the option
Answered(line, mod, picked) ==
    _recalc_line_total(
        [line EXCEPT !.choices = Put(@, mod.key, picked),
                     !.choice_price_deltas = Put(@, mod.key, SumDeltas(picked, 1))])

\* no option recognised: ask again, cart and state as they were
Reprompt_reset(mod, cart, state) ==
    Result(Seg(IF mod.multi THEN "need_one_or_more" ELSE "need_one", mod.options),
           cart, EmptyDict)

Reprompt(mod, cart, state) ==
    Result(Seg(IF mod.multi THEN "need_one_or_more" ELSE "need_one", mod.options),
           cart, state)

\* an extra is added unless the line has it already
AddExtra_once(line, extra) ==
    IF \E k \in 1..Len(line.extras) : line.extras[k] = extra THEN line
    ELSE _recalc_line_total([line EXCEPT !.extras = Append(@, extra)])

\* cart[line_index]["extras"].append(chosen_extra); _recalc_line_total(cart[line_index])
AddExtra(line, extra) ==
    _recalc_line_total([line EXCEPT !.extras = Append(@, extra)])

\* the extras are listed and the extras prompt is left
ExtrasAvailable_reset(item, cart, state) ==
    Result(Seg("extras_available", ExtraNames(item)), cart, Pop(Pop(state, "mode"), "line_index"))

\* no extra recognised: the extras are listed, cart and state as they were
ExtrasAvailable(item, cart, state) ==
    Result(Seg("extras_available", ExtraNames(item)), cart, state)

RECURSIVE handle_message(_, _, _, _)

\* return reply_prefix + "\n\n" + r, items2, state2 of a nested call that returned r
Nested(reply_prefix, r) ==
    [reply |-> reply_prefix \o r.reply, cart |-> r.cart, state |-> r.state,
     depth |-> r.depth + 1]

\* as Continue, but the pending phrase is handled by a call nested in a further one
Continue_twice(menu, kind, cart, popped) ==
    IF popped.part # ""
    THEN Nested(Seg(kind, << >>) \o Seg("summary", << >>),
                Nested(<< >>, handle_message(popped.part, cart, menu, popped.state)))
    ELSE Result(Seg(kind, << >>) \o Seg("summary", << >>), cart, popped.state)

\* the rest of the turn once a line is finished: the next pending phrase, if any
Continue(menu, kind, cart, popped) ==
    IF popped.part # ""
    THEN Nested(Seg(kind, << >>) \o Seg("summary", << >>),
                handle_message(popped.part, cart, menu, popped.state))
    ELSE Result(Seg(kind, << >>) \o Seg("summary", << >>), cart, popped.state)

Finish(menu, kind, cart, state) == Continue(menu, kind, cart, _pop_pending_part(state))

\* handle_message on the indexed menu, with what the message's text alone gives: a,
\* and choices[i][m] / extras[i], its match among the options of modifier m / the
\* extras of item i
Handle(menu, a, choices, extras, cart, state) ==
    LET mode == GetStr(state, "mode")
        line_index == int(Get(state, "line_index", JInt(-1))).value
        mod_index == int(Get(state, "mod_index", JInt(-1))).value
        in_cart == 0 <= line_index /\ line_index < Len(cart)
        i == IF in_cart THEN ItemById(menu, cart[line_index + 1].item_id) ELSE 0
        mods == IF i = 0 THEN << >> ELSE _get_item_modifiers(menu.items[i])
    IN  IF a.msg_norm \in {"basket", "cart", "summary", "my order", "whats my order",
                           "what s my order", "what's my order"}
        THEN Display(Seg("summary", << >>), cart, state)
        ELSE IF a.msg_norm \in {"confirm", "place order", "checkout"}
        THEN IF cart = << >> THEN Display(Seg("basket_empty", << >>), cart, state)
             ELSE Display(Seg("summary", << >>) \o Seg("hit_confirm", << >>), cart, state)
        ELSE IF a.is_remove
        THEN IF a.target = 0 THEN NotRemoved("which_to_remove", cart, state)
             ELSE LET r == RemoveOne(cart, menu.items[a.target].id)
                  IN  IF ~r.removed_any THEN NotRemoved("not_in_basket", cart, state)
                      ELSE Result(Seg("removed", << >>) \o Seg("summary", << >>),
                                  r.cart, state)
        ELSE IF a.menu THEN Display(Seg("we_have", _all_category_names(menu)), cart, state)
        ELSE IF a.greeting THEN Display(Seg("hey", _all_category_names(menu)), cart, state)
        ELSE IF a.wanted # "" /\ a.catq # 0
        THEN Result(Seg("category", << menu.categories[a.catq].name >>), cart, state)
        ELSE IF a.wanted # "" /\ _all_category_names(menu) # << >>
        THEN Result(Seg("we_have", _all_category_names(menu)), cart, state)
        ELSE IF a.cat # 0
        THEN Result(Seg("category", << menu.categories[a.cat].name >>), cart, state)
        ELSE IF mode = "awaiting_modifier" /\ Raised(state, "line_index") # ""
        THEN Raise(Raised(state, "line_index"), cart, state)
        ELSE IF mode = "awaiting_modifier" /\ Raised(state, "mod_index") # ""
        THEN Raise(Raised(state, "mod_index"), cart, state)
        ELSE IF mode = "awaiting_modifier"
        THEN IF i # 0 /\ 0 <= mod_index /\ mod_index < Len(mods)
             THEN LET mod == mods[mod_index + 1]
                      picked == choices[i][mod_index + 1]
                      cart2 == [cart EXCEPT ![line_index + 1] = Answered(@, mod, picked)]
                      next_idx == NextRequired(mods, mod_index)
                  IN  IF picked = << >> THEN Reprompt(mod, cart, state)
                      ELSE IF next_idx < Len(mods)
                      THEN Result(Seg("modifier_prompt", mods[next_idx + 1].options), cart2,
                                  Put(Put(Put(state, "mode", JStr("awaiting_modifier")),
                                          "line_index", JInt(line_index)),
                                      "mod_index", JInt(next_idx)))
                      ELSE IF Len(menu.items[i].extras) > 0
                      THEN Result(Seg("extras_prompt", ExtraNames(menu.items[i])), cart2,
                                  Put(Put(state, "mode", JStr("awaiting_extras")),
                                      "line_index", JInt(line_index)))
                      ELSE Finish(menu, "nice", cart2,
                                  Pop(Pop(Pop(state, "mode"), "line_index"), "mod_index"))
             ELSE AddFlow(menu, a, cart, EmptyDict)
        ELSE IF mode = "awaiting_extras" /\ Raised(state, "line_index") # ""
        THEN Raise(Raised(state, "line_index"), cart, state)
        ELSE IF mode = "awaiting_extras"
        THEN IF a.msg_norm \in _NO_EXTRAS
             THEN Finish(menu, "no_extras", cart, Pop(Pop(state, "mode"), "line_index"))
             ELSE IF i # 0
             THEN LET chosen_extra == extras[i]
                  IN  IF chosen_extra # 0
                      THEN Result(Seg("added_extra",
                                      << menu.items[i].extras[chosen_extra].name >>),
                                  [cart EXCEPT ![line_index + 1] =
                                      AddExtra(@, menu.items[i].extras[chosen_extra])],
                                  state)
                      ELSE ExtrasAvailable(menu.items[i], cart, state)
             ELSE AddFlow(menu, a, cart, EmptyDict)
        ELSE AddFlow(menu, a, cart, state)

\* synonyms = _menu_synonyms(menu_dict); menu = _build_menu_index(menu_dict, synonyms);
\* menu is menu_dict itself with the index on it, and is what a pending phrase is
\* handled on
handle_message(message, cart, menu_dict, state) ==
    Handle(Indexed[menu_dict], AnalysisOn[menu_dict][message], ChoicesOn[menu_dict][message],
           ExtrasOn[menu_dict][message], cart, state)

(***************************************************************************)
(* app/ordering/nlp.py and app/ordering/menu.py: the text helpers of the   *)
(* handler that app/main.py imports, handle_message of                     *)
(* app/ordering/brain.py.                                                  *)
(***************************************************************************)
NlpDefaultSynonyms ==
    << <<"chips", "fries">>, <<"chip", "fries">>, <<"coke", "coca cola">>,
       <<"cola", "coca cola">>, <<"coca-cola", "coca cola">>, <<"cocacola", "coca cola">>,
       <<"coca cola", "coca cola">>, <<"water", "still water">>,
       <<"still water", "still water">>, <<"donner", "doner">>, <<"donar", "doner">>,
       <<"pepperonni", "pepperoni">>, <<"peperoni", "pepperoni">>,
       <<"margarita", "margherita">>, <<"margherita", "margherita">> >>

\* s[i] is outside [\w\s] (FALSE before the text)
IsSymbolAt(s, i) == i >= 1 /\ ~IsWordChar(At(s, i)) /\ ~IsSpace(At(s, i))

\* nlp._PUNCT_RE.sub(" ", s): each run of characters outside [\w\s] becomes one space
RECURSIVE SymbolSubRange(_, _, _)
SymbolSubRange(s, lo, hi) ==
    IF lo > hi THEN ""
    ELSE IF lo = hi THEN
        IF ~IsSymbolAt(s, lo) THEN At(s, lo) ELSE IF IsSymbolAt(s, lo - 1) THEN "" ELSE " "
    ELSE SymbolSubRange(s, lo, (lo + hi) \div 2) \o SymbolSubRange(s, (lo + hi) \div 2 + 1, hi)

_basic_normalize(s) ==
    LET low == Replace(Replace(Lower(Strip(s)), "&", " and "), "+", " and ")
    IN  CollapseSpaces(SymbolSubRange(low, 1, Len(low)))

_LEADING_FILLER_RE ==
    << <<"hi">>, <<"hello">>, <<"hey">>, <<"hiya">>, <<"yo">>, <<"alright">>,
       <<"alright mate">>, <<"morning">>, <<"evening">>, <<"pls">>, <<"plz">>,
       <<"please">>, <<"mate">>, <<"boss">>, <<"bossman">>, <<"i", "would", "like">>,
       <<"i'd", "like">>, <<"id", "like">>, <<"can", "i", "get">>, <<"could", "i", "get">>,
       <<"may", "i", "have">>, <<"can", "i", "have">>, <<"could", "you">>, <<"can", "you">>,
       <<"get", "me">>, <<"give", "me">>, <<"i", "want">> >>

\* while True: s2 = _LEADING_FILLER_RE.sub("", s).strip() ...
RECURSIVE StripFillers(_)
StripFillersTo(s, s2) == IF s2 = s THEN s ELSE StripFillers(s2)
StripFillers(s) == StripFillersTo(s, Strip(StripLeading(s, _LEADING_FILLER_RE, 1)))

\* _ARTICLES_RE = ^\s*(?:and\s+)?(?:a|an|the)\b[,\s]*, ignoring case: the article at
\* s[p], removed with what precedes it, or s when none stands there
StripArticleAt(s, p) == StripLeading(SubSeq(s, p, Len(s)), << <<"a">>, <<"an">>, <<"the">> >>, 1)

HasArticleAt(s, p) == StripArticleAt(s, p) # SubSeq(s, p, Len(s))

AfterLeadingAnd(s) ==
    LET p == SkipSpaces(s, 1)
    IN  IF p + 3 <= Len(s) /\ Lower(SubSeq(s, p, p + 2)) = "and" /\ IsSpace(At(s, p + 3))
        THEN SkipSpaces(s, p + 3) ELSE 0

StripArticles(s) ==
    IF AfterLeadingAnd(s) > 0 /\ HasArticleAt(s, AfterLeadingAnd(s))
    THEN StripArticleAt(s, AfterLeadingAnd(s))
    ELSE StripArticleAt(s, 1)

\* the end of \.?\s*$ from s[j]: TRUE when only an optional full stop and white space
\* are left
OnlyStopLeft(s, j) ==
    SkipSpaces(s, IF j <= Len(s) /\ At(s, j) = "." THEN j + 1 ELSE j) = Len(s) + 1

\* the first index >= j at which _TRAILING_POLITE_RE = \b(?:please|pls|plz)\b\.?\s*$
\* matches s (ignoring case), 0 when none
RECURSIVE FindTrailingPolite(_, _)
PoliteAt(s, j) ==
    \E w \in {"please", "pls", "plz"} :
        /\ j + Len(w) - 1 <= Len(s)
        /\ Lower(SubSeq(s, j, j + Len(w) - 1)) = w
        /\ WordBoundary(s, j - 1)
        /\ WordBoundary(s, j + Len(w) - 1)
        /\ OnlyStopLeft(s, j + Len(w))

FindTrailingPolite(s, j) ==
    IF j > Len(s) THEN 0 ELSE IF PoliteAt(s, j) THEN j ELSE FindTrailingPolite(s, j + 1)

strip_filler_prefix(raw) ==
    Strip(CutBefore(Strip(StripArticles(StripFillers(Strip(raw)))),
                    FindTrailingPolite(Strip(StripArticles(StripFillers(Strip(raw)))), 1)))

\* the alternative of alts (in order) that stands at s[j] between word boundaries,
\* 0 when none does
AltAt(s, alts, j) ==
    LET fit == {n \in 1..Len(alts) :
                   /\ j + Len(alts[n]) - 1 <= Len(s)
                   /\ SubSeq(s, j, j + Len(alts[n]) - 1) = alts[n]
                   /\ WordBoundary(s, j - 1)
                   /\ WordBoundary(s, j + Len(alts[n]) - 1)}
    IN  IF fit = {} THEN 0 ELSE SetMin(fit)

\* re.sub(r"\b(alt1|alt2|...)\b", v, s) from s[j] on, on text whose white space is
\* single blanks
RECURSIVE SubAltsFrom(_, _, _, _)
SubAltsAt(s, alts, v, j, n) ==
    IF n = 0 THEN At(s, j) \o SubAltsFrom(s, alts, v, j + 1)
    ELSE v \o SubAltsFrom(s, alts, v, j + Len(alts[n]))

SubAltsFrom(s, alts, v, j) ==
    IF j > Len(s) THEN "" ELSE SubAltsAt(s, alts, v, j, AltAt(s, alts, j))

\* the patterns of _apply_pattern_synonyms in order, \s* and \s+ written out as they
\* match text whose white space is single blanks, and what each is replaced by
PatternSynonyms ==
    << << << "coca cola", "cocacola", "coca-cola", "coke" >>, "coca cola" >>,
       << << "diet coke", "diet coca cola", "diet cocacola" >>, "diet coca cola" >>,
       << << "coke zero", "cokezero", "coca cola zero", "coca colazero", "cocacola zero",
             "cocacolazero", "zero coke", "zerocoke" >>, "coca cola zero" >>,
       << << "pepsi", "max" >>, "pepsi max" >>,
       << << "7 up", "7up", "seven up", "sevenup" >>, "7up" >>,
       << << "irn bru", "irnbru", "irn-bru" >>, "irn bru" >>,
       << << "fanta orange", "fantaorange", "fanta" >>, "fanta orange" >>,
       << << "sprite" >>, "sprite" >>,
       << << "sparkling water", "fizzy water" >>, "sparkling water" >>,
       << << "still water", "water" >>, "still water" >>,
       << << "donner", "donar" >>, "doner" >>,
       << << "peperoni", "pepperonni" >>, "pepperoni" >>,
       << << "margarita" >>, "margherita" >>,
       << << "salt and pepper", "salt andpepper", "saltand pepper", "saltandpepper" >>,
          "salt and pepper" >> >>

RECURSIVE ApplyPatterns(_, _)
ApplyPatterns(s, n) ==
    IF n > Len(PatternSynonyms) THEN s
    ELSE ApplyPatterns(SubAltsFrom(s, PatternSynonyms[n][1], PatternSynonyms[n][2], 1), n + 1)

_apply_pattern_synonyms(s) == IF s = "" THEN s ELSE CollapseSpaces(ApplyPatterns(s, 1))

\* sorted(keys, key=len, reverse=True): the keys of the longest length first, keys of
\* one length in the order of the dict
RECURSIVE LongestFirst(_, _)
LongestFirst(synonyms, len) ==
    IF len = 0 THEN << >>
    ELSE SelectSeq(synonyms, LAMBDA kv : Len(kv[1]) = len) \o LongestFirst(synonyms, len - 1)

MaxKeyLen(synonyms) == SetMax({0} \cup {Len(synonyms[n][1]) : n \in 1..Len(synonyms)})

RECURSIVE ApplyDictionary(_, _, _)
ApplyDictionary(s, synonyms, n) ==
    IF n > Len(synonyms) THEN s
    ELSE ApplyDictionary(IF synonyms[n][2] = "" THEN s
                         ELSE SubWord(s, _basic_normalize(synonyms[n][1]),
                                      _basic_normalize(synonyms[n][2])),
                         synonyms, n + 1)

_apply_dictionary_synonyms(s, synonyms) ==
    IF s = "" THEN s
    ELSE CollapseSpaces(ApplyDictionary(s, LongestFirst(synonyms, MaxKeyLen(synonyms)), 1))

\* nlp.normalize_text
normalize_text(s, synonyms) ==
    CollapseSpaces(
        _apply_dictionary_synonyms(
            _apply_pattern_synonyms(
                _basic_normalize(strip_filler_prefix(_basic_normalize(s)))),
            synonyms))

\* nlp._SPLIT_RE = \s*(?:,|&|\+|\band\b)\s*, ignoring case: a separator starts at s[j]
IsNlpSeparatorAt(s, j) ==
    \/ At(s, j) \in {",", "&", "+"}
    \/ /\ j + 2 <= Len(s)
       /\ Lower(SubSeq(s, j, j + 2)) = "and"
       /\ WordBoundary(s, j - 1)
       /\ WordBoundary(s, j + 2)

RECURSIVE FindNlpSeparator(_, _)
FindNlpSeparator(s, j) ==
    IF j > Len(s) THEN 0
    ELSE IF IsNlpSeparatorAt(s, j) THEN j
    ELSE FindNlpSeparator(s, j + 1)

RECURSIVE NlpSplitFrom(_, _)
NlpSplitAt(s, i, j) ==
    IF j = 0 THEN << SubSeq(s, i, Len(s)) >>
    ELSE << SubSeq(s, i, j - 1) >>
         \o NlpSplitFrom(s, SkipSpaces(s, j + (IF IsWordAt(s, j) THEN 3 ELSE 1)))

NlpSplitFrom(s, i) == NlpSplitAt(s, i, FindNlpSeparator(s, i))

\* nlp.split_intents
split_intents(msg_norm) ==
    LET parts == SelectNonEmpty(NlpSplitFrom(msg_norm, 1))
    IN  IF Len(parts) > 0 THEN [i \in 1..Len(parts) |-> Strip(parts[i])] ELSE << msg_norm >>

\* nlp.parse_qty_prefix: the source of _parse_qty_prefix, line for line
parse_qty_prefix(msg) == _parse_qty_prefix(msg)

\* nlp.fuzzy_best_key: "" stands for None
fuzzy_best_key(keys, query, cutoff) ==
    IF query = "" \/ Len(keys) = 0 THEN ""
    ELSE IF \E i \in 1..Len(keys) : keys[i] = Lower(Strip(query)) THEN Lower(Strip(query))
    ELSE get_close_matches(Lower(Strip(query)), keys, cutoff)

\* menu.menu_synonyms
menu_synonyms(menu) == UpdateSynonyms(NlpDefaultSynonyms, menu.meta.synonyms, 1)

\* menu.build_menu_index: name_to_item_syn as the keys the items are entered under;
\* the categories of the menus here hold no items of their own
build_menu_index(menu, synonyms) ==
    [ meta |-> menu.meta, categories |-> menu.categories, items |-> menu.items,
      _index |->
          [ items_by_id |-> [i \in 1..Len(menu.items) |-> Strip(menu.items[i].id)],
            name_to_item_syn |->
                [i \in 1..Len(menu.items) |->
                    IF Strip(menu.items[i].name) = "" THEN ""
                    ELSE normalize_text(Strip(menu.items[i].name), synonyms)] ] ]

\* re.sub of a leading word of ws followed by white space, ignoring case
StripLeadingWord(s, ws) ==
    IF \E w \in ws : /\ Len(s) > Len(w)
                     /\ Lower(SubSeq(s, 1, Len(w))) = w
                     /\ IsSpace(At(s, Len(w) + 1))
    THEN LET w == CHOOSE w \in ws : /\ Len(s) > Len(w)
                                    /\ Lower(SubSeq(s, 1, Len(w))) = w
                                    /\ IsSpace(At(s, Len(w) + 1))
         IN  SubSeq(s, SkipSpaces(s, Len(w) + 1), Len(s))
    ELSE s

\* menu._query_variants
_query_variants(text, synonyms) ==
    LET q0 == normalize_text(Strip(text), synonyms)
        q1 == Strip(StripLeadingWord(q0, {"and", "with"}))
        q2 == Strip(StripLeadingWord(q1, {"a", "an", "the"}))
        Add(variants, q) ==
            IF q # "" /\ ~\E i \in 1..Len(variants) : variants[i] = q
            THEN Append(variants, q) ELSE variants
    IN  IF Strip(text) = "" \/ q0 = "" THEN << >>
        ELSE Add(Add(Add(<< q0 >>, q1), q2), q2)

\* the first variant, on the first cutoff, that fuzzy_best_key finds a key for
RECURSIVE FuzzyFind(_, _, _, _)
FuzzyFind(keys, variants, cutoffs, n) ==
    IF cutoffs = << >> THEN ""
    ELSE IF n > Len(variants) THEN FuzzyFind(keys, variants, Tail(cutoffs), 1)
    ELSE IF fuzzy_best_key(keys, variants[n], Head(cutoffs)) # ""
         THEN fuzzy_best_key(keys, variants[n], Head(cutoffs))
         ELSE FuzzyFind(keys, variants, cutoffs, n + 1)

\* menu.find_item: the place of the item in menu["items"], 0 for None
find_item(menu, text, synonyms) ==
    LET lookup == menu._index.name_to_item_syn
        keys == DictKeys(lookup, 1)
        variants == _query_variants(text, synonyms)
        exact == {n \in 1..Len(variants) : DictGet(lookup, variants[n]) > 0}
    IN  IF text = "" \/ variants = << >> THEN 0
        ELSE IF exact # {} THEN DictGet(lookup, variants[SetMin(exact)])
        ELSE DictGet(lookup, FuzzyFind(keys, variants, << 80, 78, 75 >>, 1))

(***************************************************************************)
(* app/ordering/cart.py and app/ordering/brain.py.  The reply is the kind  *)
(* of answer, as for the handler above.                                    *)
(***************************************************************************)
\* cart.recalc_line_total: round(qty * base, 2), in pence
recalc_line_total(line) ==
    [line EXCEPT !.line_total = (IF line.qty = 0 THEN 1 ELSE line.qty) * line.base_price]

\* the new_line of brain.handle_message after recalc_line_total
BrainLine(item, qty) ==
    recalc_line_total(
        [item_id |-> item.id, name |-> item.name, qty |-> qty, base_price |-> item.base_price,
         choices |-> EmptyDict, extras |-> << >>, line_total |-> 0])

\* what brain.handle_message reads of the message on the menu: the normal form of the
\* message and, per part, the quantity and the item found (0 for none)
BrainParts(menu, synonyms, parts) ==
    [n \in 1..Len(parts) |->
        [qty |-> parse_qty_prefix(parts[n]).qty,
         item |-> find_item(menu, parse_qty_prefix(parts[n]).text, synonyms)]]

BrainAnalyse(menu, message) ==
    LET synonyms == menu_synonyms(menu)
        msg_raw == strip_filler_prefix(Strip(message))
        msg_norm == normalize_text(msg_raw, synonyms)
    IN  [msg_norm |-> msg_norm,
         parts |-> BrainParts(build_menu_index(menu, synonyms), synonyms,
                              split_intents(msg_norm))]

\* for part in parts: ... cart.append(new_line)
RECURSIVE BrainAdd(_, _, _, _)
BrainAdd(menu_dict, cart, parts, n) ==
    IF n > Len(parts) THEN cart
    ELSE IF parts[n].item = 0 THEN BrainAdd(menu_dict, cart, parts, n + 1)
    ELSE BrainAdd(menu_dict,
                  Append(cart, BrainLine(menu_dict.items[parts[n].item], parts[n].qty)),
                  parts, n + 1)

\* brain.handle_message that answers reset without clearing
BrainHandle_keeps(menu_dict, a, cart, state) ==
    IF a.msg_norm \in {"reset", "clear", "start over", "new order"}
    THEN Result(Seg("cleared", << >>), cart, state)
    ELSE IF a.msg_norm \in {"basket", "cart", "summary", "my order"}
    THEN Result(Seg("summary", << >>), cart, state)
    ELSE IF a.msg_norm \in {"menu", "show menu"}
    THEN Result(Seg("categories", << >>), cart, state)
    ELSE IF \E n \in 1..Len(a.parts) : a.parts[n].item # 0
    THEN Result(Seg("added", << >>) \o Seg("summary", << >>),
                BrainAdd(menu_dict, cart, a.parts, 1), state)
    ELSE Result(Seg("help", << >>), cart, state)

\* brain.handle_message on what it reads of the message
BrainHandle(menu_dict, a, cart, state) ==
    IF a.msg_norm \in {"reset", "clear", "start over", "new order"}
    THEN Result(Seg("cleared", << >>), << >>, EmptyDict)
    ELSE IF a.msg_norm \in {"basket", "cart", "summary", "my order"}
    THEN Result(Seg("summary", << >>), cart, state)
    ELSE IF a.msg_norm \in {"menu", "show menu"}
    THEN Result(Seg("categories", << >>), cart, state)
    ELSE IF \E n \in 1..Len(a.parts) : a.parts[n].item # 0
    THEN Result(Seg("added", << >>) \o Seg("summary", << >>),
                BrainAdd(menu_dict, cart, a.parts, 1), state)
    ELSE Result(Seg("help", << >>), cart, state)

(***************************************************************************)
(* The menus on disk: the documents that load_menu_by_slug finds by their  *)
(* meta.slug; load_menu reads the document of MENU_KEY, the first of them. *)
(***************************************************************************)
KebabMenu ==
    [ meta |-> [slug |-> "kebab", synonyms |-> << >>],
      categories |-> << [id |-> "mains", name |-> "Mains"], [id |-> "sides", name |-> "Sides"] >>,
      items |-> <<
        [id |-> "kebab_doner", name |-> "Doner Wrap", category_id |-> "mains",
         base_price |-> 600, modifiers |-> << >>, extras |-> << >>],
        [id |-> "kebab_fries", name |-> "Fries", category_id |-> "sides",
         base_price |-> 250, modifiers |-> << >>, extras |-> << >>] >> ]

PizzaMenu ==
    [ meta |-> [slug |-> "pizza", synonyms |-> << >>],
      categories |-> << [id |-> "pizzas", name |-> "Pizzas"], [id |-> "sides", name |-> "Sides"] >>,
      items |-> <<
        [id |-> "pizza_margherita", name |-> "Margherita", category_id |-> "pizzas",
         base_price |-> 800, modifiers |-> << >>, extras |-> << >>],
        [id |-> "pizza_fries", name |-> "Fries", category_id |-> "sides",
         base_price |-> 300, modifiers |-> << >>, extras |-> << >>] >> ]

MenusOnDisk == << KebabMenu, PizzaMenu >>

\* load_menu(): the document of MENU_KEY
load_menu == MenusOnDisk[1]

\* _normalize_slug
_normalize_slug(slug) == Lower(Strip(slug))

\* load_menu_by_slug(slug): the place of the document in MenusOnDisk, 0 for None
load_menu_by_slug(slug) ==
    LET found == {n \in 1..Len(MenusOnDisk) :
                     Lower(Strip(MenusOnDisk[n].meta.slug)) = Lower(Strip(slug))}
    IN  IF Lower(Strip(slug)) = "" \/ found = {} THEN 0 ELSE SetMin(found)

\* the messages of the requests
ChatMessages == { "fries", "Start over!", "basket" }

\* what the messages give on each menu, worked out once, by the slug of the menu
SlugsOnDisk == {MenusOnDisk[k].meta.slug : k \in 1..Len(MenusOnDisk)}
MenuOfSlug(slug) == MenusOnDisk[CHOOSE k \in 1..Len(MenusOnDisk) : MenusOnDisk[k].meta.slug = slug]
BrainAnalysis ==
    [slug \in SlugsOnDisk |-> [t \in ChatMessages |-> BrainAnalyse(MenuOfSlug(slug), t)]]

\* handle_message of app/ordering/brain.py
brain_handle_message(message, cart, menu_dict, state) ==
    BrainHandle(menu_dict, BrainAnalysis[menu_dict.meta.slug][message], cart, state)

(***************************************************************************)
(* The conversation.  The caller keeps what one call returns and hands it  *)
(* to the next call: order.items_json and order.state_json, held here as   *)
(* the cart and the state they encode.  payload is the message of the last *)
(* call and reply what it answered.  stored is what the order held before  *)
(* the first call: the texts of its items_json and state_json.  menu_dict  *)
(* is the menu object the caller hands to every call.  other is the order  *)
(* of another session whose calls are handed the same menu object: its     *)
(* cart and state, the number of its calls, and after, the number of calls *)
(* of this session that came before the last of them.  orders is the       *)
(* orders table of the endpoints of app/main.py, a row per order in id     *)
(* order, and requests what each request in flight holds.                  *)
(***************************************************************************)
VARIABLES stored, items_json, state_json, payload, reply, turns, menu_dict, other,
          orders, requests

vars ==
    << stored, items_json, state_json, payload, reply, turns, menu_dict, other,
       orders, requests >>

MaxTurns == 6
MaxPending == 2

RECURSIVE SeqsUpTo(_, _)
SeqsUpTo(S, n) ==
    IF n = 0 THEN { << >> }
    ELSE LET shorter == SeqsUpTo(S, n - 1)
         IN  shorter \cup { Append(q, x) : q \in shorter, x \in S }

\* the other session's order when new: items_json="[]", state_json="{}"
NewOrder == [items_json |-> << >>, state_json |-> EmptyDict, turns |-> 0, after |-> 0]

\* what order.items_json and order.state_json hold before the first call
Loaded ==
    /\ items_json = _load_cart(stored.items_json)
    /\ state_json = _load_state(stored.state_json)

\* a new order: items_json="[]", state_json="{}"
Init ==
    /\ stored = [items_json |-> "[]", state_json |-> "{}"]
    /\ Loaded
    /\ payload = ""
    /\ reply = << >>
    /\ turns = 0
    /\ menu_dict = Menu
    /\ other = NewOrder
    /\ orders = << >>
    /\ requests = << >>

\* "a", "b", ... of the phrases
RECURSIVE Quoted(_)
Quoted(phrases) ==
    IF Len(phrases) = 1 THEN "\"" \o phrases[1] \o "\""
    ELSE "\"" \o phrases[1] \o "\", " \o Quoted(Tail(phrases))

\* the text of a state that holds the phrases in pending_parts
PendingText(pending) == "{\"pending_parts\": [" \o Quoted(pending) \o "]}"

\* a stored state that holds phrases queued for later
InitPending ==
    /\ \E pending \in SeqsUpTo(PendingTexts, MaxPending) \ { << >> } :
           stored = [items_json |-> "[]", state_json |-> PendingText(pending)]
    /\ Loaded
    /\ payload = ""
    /\ reply = << >>
    /\ turns = 0
    /\ menu_dict = Menu
    /\ other = NewOrder
    /\ orders = << >>
    /\ requests = << >>

\* order.items_json, order.state_json = the cart and the state of the result r
Store(msg, r) ==
    /\ turns < MaxTurns
    /\ stored' = stored
    /\ items_json' = r.cart
    /\ state_json' = r.state
    /\ payload' = msg
    /\ reply' = r.reply
    /\ turns' = turns + 1
    /\ UNCHANGED << orders, requests >>

\* one call of handle_message; menu["_index"] = idx is written on the caller's object
Turn(msg) ==
    /\ Store(msg, handle_message(msg, items_json, menu_dict, state_json))
    /\ menu_dict' = Indexed[menu_dict]
    /\ other' = other

Next == \E msg \in Messages : Turn(msg)

Spec == Init /\ [][Next]_vars

NextPending == \E msg \in PendingMessages : Turn(msg)

SpecPending == InitPending /\ [][NextPending]_vars

(***************************************************************************)
(* An order whose stored texts are not what handle_message wrote: texts    *)
(* that are no JSON, JSON of another type, and states whose fields are     *)
(* absent or of another type.                                              *)
(***************************************************************************)
StoredCarts == { "", "[]", "null", "{}", "[", "oops", "7", "{\"item_id\": \"fries\"}" }

StoredStates ==
    { "", "{}", "null", "[]", "{", "oops", "5", "\"awaiting_extras\"",
      "{\"mode\": \"awaiting_modifier\"}",
      "{\"mode\": \"awaiting_modifier\", \"line_index\": null}",
      "{\"mode\": \"awaiting_modifier\", \"line_index\": 0, \"mod_index\": null}",
      "{\"mode\": \"awaiting_extras\", \"line_index\": \"abc\"}",
      "{\"mode\": \"awaiting_extras\", \"line_index\": \"0\"}",
      "{\"mode\": \"awaiting_extras\", \"line_index\": 0, \"pending_parts\": \"fries\"}",
      "{\"mode\": 5, \"line_index\": null}",
      "{\"pending_parts\": null}",
      "{\"pending_parts\": [\"fries\"]}" }

StoredMessages == { "doner wrap", "large", "cheese", "no extras", "basket", "asdf" }

MaxStoredTurns == 2

InitStored ==
    /\ stored \in [items_json : StoredCarts, state_json : StoredStates]
    /\ Loaded
    /\ payload = ""
    /\ reply = << >>
    /\ turns = 0
    /\ menu_dict = Menu
    /\ other = NewOrder
    /\ orders = << >>
    /\ requests = << >>

StoredTurn(msg) == turns < MaxStoredTurns /\ Turn(msg)

NextStored == \E msg \in StoredMessages : StoredTurn(msg)

SpecStored == InitStored /\ [][NextStored]_vars

\* Two sessions whose calls are handed one menu object, the calls of the two in any
\* order.
SharedMessages == { "doner wrap", "large", "no extras", "fries", "basket", "asdf" }
MaxSharedTurns == 2

OwnTurn(msg) == turns < MaxSharedTurns /\ Turn(msg)

\* order.items_json, order.state_json = the cart and the state of the result r, on the
\* other session's order
StoreOther(r) ==
    /\ other.turns < MaxSharedTurns
    /\ other' = [items_json |-> r.cart, state_json |-> r.state,
                 turns |-> other.turns + 1, after |-> turns]
    /\ UNCHANGED << stored, items_json, state_json, payload, reply, turns, orders, requests >>

\* one call of handle_message for the other session
OtherTurn(msg) ==
    /\ StoreOther(handle_message(msg, other.items_json, menu_dict, other.state_json))
    /\ menu_dict' = Indexed[menu_dict]

NextShared == \E msg \in SharedMessages : OwnTurn(msg) \/ OtherTurn(msg)

SpecShared == Init /\ [][NextShared]_vars

\* A conversation on the menu that has an item with "and" in its name.
MaxSplitTurns == 3

InitSplit ==
    /\ stored = [items_json |-> "[]", state_json |-> "{}"]
    /\ Loaded
    /\ payload = ""
    /\ reply = << >>
    /\ turns = 0
    /\ menu_dict = ComboMenu
    /\ other = NewOrder
    /\ orders = << >>
    /\ requests = << >>

SplitTurn(msg) == turns < MaxSplitTurns /\ Turn(msg)

NextSplit == \E msg \in SplitMessages : SplitTurn(msg)

SpecSplit == InitSplit /\ [][NextSplit]_vars

\* _normalize_text applied to a text, and to what it returns, with the synonyms of the
\* menu; payload is the text.
NormalizeInputs ==
    Texts \cup { "coke", "cola", "water", "pepsi", "a coke", "Coca-Cola", "cocacola",
                 "chips", "2x Chips!", "Donner  wrap", "still water", "margarita pizza",
                 "  Hello,  mate ", "chip & coke", "" }
MaxNormalizeTurns == 3

InitNormalize ==
    /\ stored = [items_json |-> "[]", state_json |-> "{}"]
    /\ Loaded
    /\ payload \in NormalizeInputs
    /\ reply = << >>
    /\ turns = 0
    /\ menu_dict = Menu
    /\ other = NewOrder
    /\ orders = << >>
    /\ requests = << >>

Normalize ==
    /\ turns < MaxNormalizeTurns
    /\ payload' = _normalize_text(payload, _menu_synonyms(menu_dict))
    /\ turns' = turns + 1
    /\ UNCHANGED << stored, items_json, state_json, reply, menu_dict, other, orders, requests >>

SpecNormalize == InitNormalize /\ [][Normalize]_vars

\* Pricing of lines whose price has a third decimal: each step prices one more line,
\* _recalc_line_total on the line and _cart_total over the cart.
RoundPrices == { 5005, 2995, 1005, 2675, 8005, 1115, 125, 375, 1004, 1006, 999, 1000 }
MaxRoundLines == 2

InitRound ==
    /\ stored = [items_json |-> "[]", state_json |-> "{}"]
    /\ Loaded
    /\ payload = ""
    /\ reply = << >>
    /\ turns = 0
    /\ menu_dict = Menu
    /\ other = NewOrder
    /\ orders = << >>
    /\ requests = << >>

\* a line of one unit of an item priced t thousandths
LinePriced(t) ==
    _recalc_line_total_of_price(
        [item_id |-> "priced", name |-> "Priced", qty |-> 1, base_price |-> t,
         choices |-> EmptyDict, choice_price_deltas |-> EmptyDict, extras |-> << >>,
         notes |-> "", line_total |-> 0])

PriceLine(t) ==
    /\ Len(items_json) < MaxRoundLines
    /\ items_json' = Append(items_json, LinePriced(t))
    /\ reply' = Seg("summary", _cart_total(items_json'))
    /\ turns' = turns + 1
    /\ UNCHANGED << stored, state_json, payload, menu_dict, other, orders, requests >>

NextRound == \E t \in RoundPrices : PriceLine(t)

SpecRound == InitRound /\ [][NextRound]_vars

(***************************************************************************)
(* The optional rewriter of app/main.py.  What interpret_message_llm gives *)
(* is not the program's to decide: an exception, or the value json.loads   *)
(* made of the reply.                                                      *)
(***************************************************************************)
\* bool(v)
Truthy(v) ==
    CASE v.type = "null" -> FALSE
      [] v.type = "bool" -> v.bool
      [] v.type = "int" -> v.int # 0
      [] v.type = "str" -> v.str # ""
      [] v.type = "list" -> v.list # << >>
      [] v.type = "dict" -> DOMAIN v.dict # {}

\* v or default
OrElse(v, default) == IF Truthy(v) THEN v ELSE default

Returned(text) == [raises |-> "", text |-> text]
Raising(exception) == [raises |-> exception, text |-> ""]

\* (cmd.get(key) or "").strip(): only a str has strip
StripOf(cmd, key, then(_)) ==
    LET v == OrElse(Get(cmd, key, JNull), JStr(""))
    IN  IF v.type # "str" THEN Raising("AttributeError") ELSE then(Strip(v.str))

\* the add_item branch, name stripped
AddItemText(cmd, name) ==
    LET qty == int(OrElse(Get(cmd, "qty", JNull), JInt(1)))
    IN  IF qty.raises # "" THEN Raising(qty.raises)
        ELSE IF name = "" THEN Returned("")
        ELSE IF qty.value <= 1 THEN Returned(name)
        ELSE Returned(Decimal(qty.value) \o "x " \o name)

RemoveItemText(name) == Returned(IF name = "" THEN "" ELSE "remove " \o name)

\* the show_category branch
ShowCategoryText(cmd) ==
    LET cat == OrElse(Get(cmd, "category", JNull), JStr(""))
    IN  Returned(IF Strip(str(cat)) = "" THEN "menu" ELSE Strip(str(cat)))

\* command_to_userlike_text(cmd), for the intent stripped
TextOfIntent(cmd, intent) ==
    CASE intent = "show_menu" -> Returned("menu")
      [] intent = "show_basket" -> Returned("basket")
      [] intent = "show_category" -> ShowCategoryText(cmd)
      [] intent = "add_item" -> LET Add(name) == AddItemText(cmd, name)
                                IN  StripOf(cmd, "item_name", Add)
      [] intent = "remove_item" -> StripOf(cmd, "item_name", RemoveItemText)
      [] intent = "choose_option" -> StripOf(cmd, "option_value", Returned)
      [] intent = "add_extra" -> StripOf(cmd, "extra_name", Returned)
      [] intent = "no_extras" -> Returned("no extras")
      [] intent = "confirm" -> Returned("confirm")
      [] OTHER -> Returned("")

\* command_to_userlike_text(cmd): the text, or the exception it ends in
command_to_userlike_text(cmd) ==
    IF cmd.type # "dict" THEN Raising("AttributeError")
    ELSE LET intent == OrElse(Get(cmd.dict, "intent", JNull), JStr("unknown"))
         IN  IF intent.type # "str" THEN Raising("AttributeError")
             ELSE TextOfIntent(cmd.dict, Strip(intent.str))

\* _apply_optional_llm_rewrite that returns the candidate whatever it is
_apply_optional_llm_rewrite_unguarded(text, llm) ==
    IF ~(llm.llm_enabled /\ llm.openai_api_key # "" /\ llm.interpret_message_llm) THEN text
    ELSE IF llm.outcome.raises # "" THEN text
    ELSE LET candidate == command_to_userlike_text(llm.outcome.cmd)
         IN  IF candidate.raises # "" THEN text ELSE candidate.text

\* _apply_optional_llm_rewrite(text, menu_dict, state_json); llm holds the settings,
\* whether the import of interpret_message_llm succeeded, and what the call gives
_apply_optional_llm_rewrite(text, llm) ==
    IF ~(llm.llm_enabled /\ llm.openai_api_key # "" /\ llm.interpret_message_llm) THEN text
    ELSE IF llm.outcome.raises # "" THEN text
    ELSE LET candidate == command_to_userlike_text(llm.outcome.cmd)
         IN  IF candidate.raises # "" THEN text
             ELSE IF candidate.text # "" THEN candidate.text ELSE text

\* a command with the given fields, the others null as the schema has them
Command(fields) ==
    JDict([k \in {"intent", "category", "item_name", "qty", "option_value", "extra_name"} |->
              IF k \in DOMAIN fields THEN fields[k] ELSE JNull])

Intent(intent) == Command(Put(EmptyDict, "intent", JStr(intent)))
IntentWith(intent, key, v) == Command(Put(Put(EmptyDict, "intent", JStr(intent)), key, v))
AddItem(name, qty) ==
    Command(Put(Put(Put(EmptyDict, "intent", JStr("add_item")), "item_name", name), "qty", qty))

LlmCommands ==
    { Intent("unknown"), Intent("show_menu"), Intent("show_basket"), Intent("no_extras"),
      Intent("confirm"), Intent(" confirm "), Intent("reorder"), Intent(""),
      Command(EmptyDict), IntentWith("unknown", "intent", JInt(3)),
      Intent("show_category"), IntentWith("show_category", "category", JStr(" Drinks ")),
      IntentWith("show_category", "category", JInt(2)),
      Intent("add_item"), AddItem(JStr("Fries"), JNull), AddItem(JStr("Fries"), JInt(1)),
      AddItem(JStr(" Fries "), JInt(2)), AddItem(JStr("Fries"), JInt(0)),
      AddItem(JStr("Fries"), JStr("two")), AddItem(JStr("  "), JInt(2)),
      AddItem(JNull, JStr("two")), AddItem(JInt(7), JInt(1)),
      Intent("remove_item"), IntentWith("remove_item", "item_name", JStr("Fries")),
      Intent("choose_option"), IntentWith("choose_option", "option_value", JStr("Large")),
      Intent("add_extra"), IntentWith("add_extra", "extra_name", JStr("Cheese")),
      JList(<< >>), JDict(EmptyDict) }

LlmOutcomes ==
    { [raises |-> "APIError", cmd |-> JNull], [raises |-> "JSONDecodeError", cmd |-> JNull] }
        \cup { [raises |-> "", cmd |-> c] : c \in LlmCommands }

Llms ==
    [llm_enabled : BOOLEAN, openai_api_key : {"", "sk-test"},
     interpret_message_llm : BOOLEAN, outcome : LlmOutcomes]

RawMessages == { "can i get some chips pls", "the big one", "" }

\* one request and what it is rewritten to
InitRewrite ==
    /\ stored = [items_json |-> "[]", state_json |-> "{}"]
    /\ Loaded
    /\ payload = ""
    /\ reply = << >>
    /\ turns = 0
    /\ menu_dict = Menu
    /\ other = NewOrder
    /\ orders = << >>
    /\ requests \in { << [message |-> m, llm |-> llm] >> : m \in RawMessages, llm \in Llms }

\* text = await _apply_optional_llm_rewrite(payload.message, menu_dict, order.state_json)
Rewrite ==
    /\ turns = 0
    /\ payload' = _apply_optional_llm_rewrite(requests[1].message, requests[1].llm)
    /\ turns' = 1
    /\ UNCHANGED << stored, items_json, state_json, reply, menu_dict, other, orders, requests >>

SpecRewrite == InitRewrite /\ [][Rewrite]_vars

(***************************************************************************)
(* The endpoints of app/main.py on the orders table.  A row is an Order:   *)
(* its id is its place in the table, items_json and state_json are held as *)
(* the cart and the state they encode.  The body of a chat endpoint runs   *)
(* on the event loop and gives way to other requests only where it awaits  *)
(* the rewriter, and only when the rewriter calls out; a request that has  *)
(* given way holds the order as its own session loaded it.  /order/reset   *)
(* and /order/confirm are taken as one step each.                          *)
(***************************************************************************)
Users == { 1, 2 }
MaxRequests == 3
MaxInFlight == 2

Idle == [pc |-> "idle"]

Draft(user_id) ==
    [user_id |-> user_id, status |-> "draft", items_json |-> << >>, state_json |-> EmptyDict]

\* db.query(Order).filter(user_id, status == "draft").order_by(Order.id.desc()).first():
\* the id of the order, 0 for None
LatestDraft(table, user_id) ==
    LET drafts == {id \in 1..Len(table) :
                      table[id].user_id = user_id /\ table[id].status = "draft"}
    IN  IF drafts = {} THEN 0 ELSE SetMax(drafts)

\* get_or_create_draft that adds an order whether or not the user has a draft
get_or_create_draft_always(table, user_id) ==
    [orders |-> Append(table, Draft(user_id)), id |-> Len(table) + 1]

\* get_or_create_draft(db, user_id): the table after it and the id of the order
get_or_create_draft(table, user_id) ==
    IF LatestDraft(table, user_id) # 0
    THEN [orders |-> table, id |-> LatestDraft(table, user_id)]
    ELSE [orders |-> Append(table, Draft(user_id)), id |-> Len(table) + 1]

\* the order as the session of the request holds it
Held(table, id) ==
    [id |-> id, items_json |-> table[id].items_json, state_json |-> table[id].state_json]

\* _ensure_order_scoped_to_restaurant(order, slug)
_ensure_order_scoped_to_restaurant(order, slug) ==
    LET curr_slug == _normalize_slug(slug)
        prev_slug ==
            _normalize_slug(str(OrElse(Get(order.state_json, "restaurant_slug", JNull),
                                       JStr(""))))
        wipe == prev_slug # "" /\ prev_slug # curr_slug
    IN  [order EXCEPT
            !.items_json = IF wipe THEN << >> ELSE @,
            !.state_json = Put(IF wipe THEN EmptyDict ELSE @, "restaurant_slug",
                               JStr(curr_slug))]

\* settings and rewriter of the requests: switched off, or calling out and failing
LlmOff ==
    [llm_enabled |-> FALSE, openai_api_key |-> "", interpret_message_llm |-> TRUE,
     outcome |-> [raises |-> "", cmd |-> JNull]]
LlmFails ==
    [llm_enabled |-> TRUE, openai_api_key |-> "sk-test", interpret_message_llm |-> TRUE,
     outcome |-> [raises |-> "APIError", cmd |-> JNull]]
ChatLlms == { LlmOff, LlmFails }

\* the rewriter awaits interpret_message_llm
CallsOut(llm) == llm.llm_enabled /\ llm.openai_api_key # "" /\ llm.interpret_message_llm

\* the endpoints a chat request is sent to: "" is /chat, a slug is /r/{slug}/chat
ChatSlugs == { "", "kebab", " Pizza ", "nowhere" }

\* the menu of the request, 0 when load_menu_by_slug finds none
MenuOfRequest(slug) == IF slug = "" THEN 1 ELSE load_menu_by_slug(_normalize_slug(slug))

\* the request from handle_message to the response: held is the order as the session
\* holds it, text the message handed to handle_message
Respond(table, held, slug, text) ==
    \E r \in { brain_handle_message(text, held.items_json,
                                     MenusOnDisk[MenuOfRequest(slug)], held.state_json) } :
        /\ orders' = [table EXCEPT ![held.id] =
                         [@ EXCEPT !.items_json = r.cart, !.state_json = r.state]]
        /\ items_json' = r.cart
        /\ state_json' = r.state
        /\ payload' = text
        /\ reply' = Seg("chat", [reply |-> r.reply, order_id |-> held.id,
                                 restaurant_slug |-> _normalize_slug(slug)])

\* the request gives way at the await of the rewriter
GiveWay(table, held, user_id, slug, message, llm) ==
    /\ \E slot \in 1..MaxInFlight : requests[slot] = Idle
    /\ requests' =
           [requests EXCEPT ![SetMin({slot \in 1..MaxInFlight : requests[slot] = Idle})] =
               [pc |-> "awaiting", user_id |-> user_id, slug |-> slug, message |-> message,
                llm |-> llm, order |-> held]]
    /\ orders' = table
    /\ UNCHANGED << items_json, state_json, payload, reply >>

\* a chat request up to the await, and to its end when the rewriter does not call out
Begin(g, held, user_id, slug, message, llm) ==
    IF CallsOut(llm) THEN GiveWay(g.orders, held, user_id, slug, message, llm)
    ELSE /\ Respond(g.orders, held, slug, _apply_optional_llm_rewrite(message, llm))
         /\ requests' = requests

\* POST /chat
chat(user_id, message, llm) ==
    /\ turns < MaxRequests
    /\ turns' = turns + 1
    /\ \E g \in { get_or_create_draft(orders, user_id) } :
           Begin(g, Held(g.orders, g.id), user_id, "", message, llm)
    /\ UNCHANGED << stored, menu_dict, other >>

\* POST /r/{slug}/chat
chat_for_restaurant(user_id, slug, message, llm) ==
    /\ turns < MaxRequests
    /\ turns' = turns + 1
    /\ IF MenuOfRequest(slug) = 0
       THEN /\ reply' = Seg("404", "Restaurant not found")
            /\ UNCHANGED << orders, requests, items_json, state_json, payload >>
       ELSE \E g \in { get_or_create_draft(orders, user_id) } :
                Begin(g, _ensure_order_scoped_to_restaurant(Held(g.orders, g.id), slug),
                      user_id, slug, message, llm)
    /\ UNCHANGED << stored, menu_dict, other >>

\* a request that gave way goes on from the await to its response
Resume(slot) ==
    /\ requests[slot] # Idle
    /\ Respond(orders, requests[slot].order, requests[slot].slug,
               _apply_optional_llm_rewrite(requests[slot].message, requests[slot].llm))
    /\ requests' = [requests EXCEPT ![slot] = Idle]
    /\ UNCHANGED << stored, turns, menu_dict, other >>

\* POST /order/reset
reset_order(user_id) ==
    /\ turns < MaxRequests
    /\ turns' = turns + 1
    /\ IF LatestDraft(orders, user_id) = 0
       THEN /\ reply' = Seg("reset", [message |-> "No draft to reset", order_id |-> 0])
            /\ orders' = orders
       ELSE /\ orders' = [orders EXCEPT ![LatestDraft(orders, user_id)] =
                             [@ EXCEPT !.items_json = << >>, !.state_json = EmptyDict]]
            /\ reply' = Seg("reset", [message |-> "Draft reset",
                                      order_id |-> LatestDraft(orders, user_id)])
    /\ UNCHANGED << stored, items_json, state_json, payload, menu_dict, other, requests >>

\* POST /order/confirm
confirm(user_id) ==
    /\ turns < MaxRequests
    /\ turns' = turns + 1
    /\ IF LatestDraft(orders, user_id) = 0
       THEN /\ reply' = Seg("400", "No draft order to confirm")
            /\ orders' = orders
       ELSE IF orders[LatestDraft(orders, user_id)].items_json = << >>
       THEN /\ reply' = Seg("400", "Order is empty")
            /\ orders' = orders
       ELSE /\ orders' = [orders EXCEPT ![LatestDraft(orders, user_id)] =
                             [@ EXCEPT !.status = "confirmed", !.state_json = EmptyDict]]
            /\ reply' = Seg("confirmed", [order_id |-> LatestDraft(orders, user_id),
                                          status |-> "confirmed"])
    /\ UNCHANGED << stored, items_json, state_json, payload, menu_dict, other, requests >>

InitMain ==
    /\ stored = [items_json |-> "[]", state_json |-> "{}"]
    /\ Loaded
    /\ payload = ""
    /\ reply = << >>
    /\ turns = 0
    /\ menu_dict = load_menu
    /\ other = NewOrder
    /\ orders = << >>
    /\ requests = [slot \in 1..MaxInFlight |-> Idle]

NextMain ==
    \/ \E user_id \in Users, message \in ChatMessages, llm \in ChatLlms :
           chat(user_id, message, llm)
    \/ \E user_id \in Users, slug \in ChatSlugs \ {""}, message \in ChatMessages,
          llm \in ChatLlms :
           chat_for_restaurant(user_id, slug, message, llm)
    \/ \E slot \in 1..MaxInFlight : Resume(slot)
    \/ \E user_id \in Users : reset_order(user_id)
    \/ \E user_id \in Users : confirm(user_id)

SpecMain == InitMain /\ [][NextMain]_vars

(***************************************************************************)
(* What the properties below read off a state.                             *)
(***************************************************************************)
\* NONE is a state without a mode
ModeOf(s) == IF GetStr(s, "mode") = "" THEN "NONE" ELSE GetStr(s, "mode")
LineIndexOf(s) == int(Get(s, "line_index", JInt(-1))).value
ModIndexOf(s) == int(Get(s, "mod_index", JInt(-1))).value
PendingOf(s) == TextsOf(GetList(s, "pending_parts"))

\* the message returns before the mode is looked at (lines 737-807)
IsCommand(msg) ==
    LET a == Analysis[msg]
    IN  \/ a.msg_norm \in {"basket", "cart", "summary", "my order", "whats my order",
                            "what s my order", "what's my order",
                            "confirm", "place order", "checkout"}
        \/ a.is_remove
        \/ a.menu
        \/ a.greeting
        \/ a.wanted # ""
        \/ a.cat # 0

\* the line the state points at, when it points at one
HasTarget(c, s) == 0 <= LineIndexOf(s) /\ LineIndexOf(s) < Len(c)
TargetLine(c, s) == c[LineIndexOf(s) + 1]
TargetItem(c, s) == ItemById(IndexedMenu, TargetLine(c, s).item_id)

\* an item with one required single-choice modifier and at least one extra
OneChoiceWithExtras(i) ==
    LET mods == _get_item_modifiers(Menu.items[i])
    IN  /\ Len(mods) = 1
        /\ mods[1].required
        /\ ~mods[1].multi
        /\ Len(Menu.items[i].extras) >= 1

\* line_total as the pricing rule gives it
PriceOf(line) ==
    line.qty * (line.base_price
                + SumValues(line.choice_price_deltas, DOMAIN line.choice_price_deltas)
                + SumPrices(line.extras, 1))

(***************************************************************************)
(* C1.  The add -> configure cycle of an item with one required            *)
(* single-choice modifier and at least one extra.                          *)
(***************************************************************************)
\* the four turns of the cycle; an extra raises the total by qty times its price
\* (per_unit) or by its price
C1_Turns(per_unit) ==
    LET a == Analysis[payload']
        i == TargetItem(items_json, state_json)
        line == TargetLine(items_json, state_json)
        line2 == TargetLine(items_json', state_json)
    IN  /\ ( /\ items_json = << >>
             /\ ModeOf(state_json) = "NONE"
             /\ ~IsCommand(payload')
             /\ a.parts # << >>
             /\ \A n \in 1..Len(a.parts) : a.parts[n].item # 0
             /\ OneChoiceWithExtras(a.parts[1].item) )
           => /\ ModeOf(state_json') = "awaiting_modifier"
              /\ LineIndexOf(state_json') = 0
              /\ items_json'[1].item_id = Menu.items[a.parts[1].item].id
              /\ items_json'[1].qty = a.parts[1].qty
        /\ ( /\ ModeOf(state_json) = "awaiting_modifier"
             /\ HasTarget(items_json, state_json)
             /\ i # 0
             /\ OneChoiceWithExtras(i)
             /\ ModIndexOf(state_json) = 0
             /\ line.extras = << >>
             /\ ~IsCommand(payload')
             /\ Choices[payload'][i][1] # << >> )
           => /\ ModeOf(state_json') = "awaiting_extras"
              /\ LineIndexOf(state_json') = LineIndexOf(state_json)
              /\ line2.line_total =
                     line.qty * (line.base_price + SumDeltas(Choices[payload'][i][1], 1))
        /\ ( /\ ModeOf(state_json) = "awaiting_extras"
             /\ HasTarget(items_json, state_json)
             /\ i # 0
             /\ OneChoiceWithExtras(i)
             /\ ~IsCommand(payload')
             /\ a.msg_norm \notin _NO_EXTRAS
             /\ Extras[payload'][i] # 0 )
           => /\ ModeOf(state_json') = "awaiting_extras"
              /\ LineIndexOf(state_json') = LineIndexOf(state_json)
              /\ line2.line_total =
                     line.line_total
                     + (IF per_unit THEN line.qty ELSE 1)
                       * Menu.items[i].extras[Extras[payload'][i]].price
        /\ ( /\ ModeOf(state_json) = "awaiting_extras"
             /\ HasTarget(items_json, state_json)
             /\ i # 0
             /\ OneChoiceWithExtras(i)
             /\ PendingOf(state_json) = << >>
             /\ ~IsCommand(payload')
             /\ a.msg_norm = "no extras" )
           => /\ ModeOf(state_json') = "NONE"
              /\ items_json' = items_json
              /\ (Len(items_json) = 1 => _cart_total(items_json') = line.line_total)

\* C1 (as amended): naming the item from an empty cart ends in AWAITING_MODIFIER on
\* the new line; a valid option then ends in AWAITING_EXTRAS with line_total =
\* qty * (base_price + option delta); a valid extra stays in AWAITING_EXTRAS and
\* raises line_total by qty times the extra's price; "no extras" ends in NONE with
\* the basket total equal to that line_total.
C1_AddConfigureCycle == [][C1_Turns(TRUE)]_vars

\* C1 as the specification words it: a valid extra raises line_total by the extra's price
C1_ExtraRaisesByItsPrice == [][C1_Turns(FALSE)]_vars

\* two doner wraps, large, with cheese, closed with "no extras": 2 * (6.00 + 1.50 + 0.50)
C1_Witness ==
    /\ payload = "no extras"
    /\ ModeOf(state_json) = "NONE"
    /\ Len(items_json) = 1
    /\ items_json[1].item_id = "doner_wrap"
    /\ items_json[1].qty = 2
    /\ items_json[1].choices = [size |-> << "Large (+1.50)" >>]
    /\ Len(items_json[1].extras) = 1
    /\ items_json[1].line_total = 1600
    /\ _cart_total(items_json) = 1600

(***************************************************************************)
(* C2.  Pricing.                                                           *)
(***************************************************************************)
\* C2: after every turn each line of the cart has line_total =
\* qty * (base_price + sum of choice_price_deltas + sum of the extras' prices)
C2_LineTotalInvariant ==
    \A n \in 1..Len(items_json) : items_json[n].line_total = PriceOf(items_json[n])

\* one of two large doner wraps with cheese was removed: 1 * (6.00 + 1.50 + 0.50)
C2_Witness ==
    /\ payload = "remove doner wrap"
    /\ Len(items_json) = 1
    /\ items_json[1].qty = 1
    /\ items_json[1].choice_price_deltas = [size |-> 150]
    /\ Len(items_json[1].extras) = 1
    /\ items_json[1].line_total = 800

(***************************************************************************)
(* C3.  The indices of the state.                                          *)
(***************************************************************************)
\* C3: at the end of every turn, if mode is not NONE then line_index is a valid
\* index into the cart, and if mode is AWAITING_MODIFIER then mod_index is a valid
\* index into the modifiers of the item of cart[line_index]
C3_IndicesValid ==
    /\ ModeOf(state_json) # "NONE" => HasTarget(items_json, state_json)
    /\ ModeOf(state_json) = "awaiting_modifier" =>
           /\ HasTarget(items_json, state_json)
           /\ TargetItem(items_json, state_json) # 0
           /\ 0 <= ModIndexOf(state_json)
           /\ ModIndexOf(state_json) <
                  Len(_get_item_modifiers(Menu.items[TargetItem(items_json, state_json)]))

(***************************************************************************)
(* C4.  Ambiguity.                                                         *)
(***************************************************************************)
\* a phrase of the message whose keyword matches two or more menu items
AmbiguousPart(msg) ==
    \E n \in 1..Len(Analysis[msg].parts) : Len(Analysis[msg].parts[n].matches) >= 2

\* C4: whenever a phrase's keyword matches two or more menu items, the turn returns
\* a list of the candidates and the cart and the state are returned as they came:
\* no candidate is chosen and no line is added
C4_AmbiguityNeverMutates ==
    [][ ( /\ ModeOf(state_json) = "NONE"
          /\ ~IsCommand(payload')
          /\ AmbiguousPart(payload') )
        => /\ Len(reply') = 1
           /\ reply'[1].kind = "which_one"
           /\ items_json' = items_json
           /\ state_json' = state_json ]_vars

(***************************************************************************)
(* C5.  The phrases of one message.                                        *)
(***************************************************************************)
\* every phrase of the message names an item
AllPartsResolve(msg) ==
    /\ Analysis[msg].parts # << >>
    /\ \A n \in 1..Len(Analysis[msg].parts) : Analysis[msg].parts[n].item # 0

\* the first phrase whose item needs a modifier or an extra, 0 when there is none
TriggerPart(msg) ==
    LET parts == Analysis[msg].parts
        needs == {n \in 1..Len(parts) :
                     /\ parts[n].item # 0
                     /\ \/ \E k \in 1..Len(Menu.items[parts[n].item].modifiers) :
                              Menu.items[parts[n].item].modifiers[k].required
                        \/ Len(Menu.items[parts[n].item].extras) > 0}
    IN  IF needs = {} THEN 0 ELSE SetMin(needs)

PhrasesFrom(msg, n) ==
    [k \in 1..(Len(Analysis[msg].parts) - n + 1) |-> Analysis[msg].parts[n + k - 1].part]

\* C5 (as amended): when a message of several phrases makes the machine leave NONE,
\* every phrase is resolved in that same turn, in order: each adds its line before
\* the configuration starts, and pending_parts is left as it was
C5_AllPartsInOneTurn ==
    [][ ( /\ ModeOf(state_json) = "NONE"
          /\ ~IsCommand(payload')
          /\ AllPartsResolve(payload')
          /\ Len(Analysis[payload'].parts) >= 2
          /\ TriggerPart(payload') # 0 )
        => LET parts == Analysis[payload'].parts
           IN  /\ ModeOf(state_json') # "NONE"
               /\ PendingOf(state_json') = PendingOf(state_json)
               /\ Len(items_json') = Len(items_json) + Len(parts)
               /\ \A n \in 1..Len(parts) :
                      /\ items_json'[Len(items_json) + n].item_id = Menu.items[parts[n].item].id
                      /\ items_json'[Len(items_json) + n].qty = parts[n].qty ]_vars

\* C5 as the specification words it: every phrase after the one that made the
\* machine leave NONE is appended, in order, to pending_parts
C5_LaterPartsQueued ==
    [][ ( /\ ModeOf(state_json) = "NONE"
          /\ ~IsCommand(payload')
          /\ AllPartsResolve(payload')
          /\ Len(Analysis[payload'].parts) >= 2
          /\ TriggerPart(payload') # 0
          /\ TriggerPart(payload') < Len(Analysis[payload'].parts) )
        => /\ ModeOf(state_json') # "NONE"
           /\ PendingOf(state_json') =
                  PendingOf(state_json) \o PhrasesFrom(payload', TriggerPart(payload') + 1)
      ]_vars

\* "doner wrap and fries": both lines are in the cart while the size is asked
C5_Witness ==
    /\ payload = "doner wrap and fries"
    /\ ModeOf(state_json) = "awaiting_modifier"
    /\ LineIndexOf(state_json) = 0
    /\ PendingOf(state_json) = << >>
    /\ Len(items_json) = 2
    /\ items_json[1].item_id = "doner_wrap"
    /\ items_json[2].item_id = "fries"

(***************************************************************************)
(* C6 - C8.  Answers to a modifier, and the phrases that wait.             *)
(***************************************************************************)
\* the state asks for a modifier of a line of the cart and msg is taken as the answer
AnswersModifier(msg) ==
    /\ ModeOf(state_json) = "awaiting_modifier"
    /\ HasTarget(items_json, state_json)
    /\ TargetItem(items_json, state_json) # 0
    /\ 0 <= ModIndexOf(state_json)
    /\ ModIndexOf(state_json) <
           Len(_get_item_modifiers(Menu.items[TargetItem(items_json, state_json)]))
    /\ ~IsCommand(msg)

TargetMods == _get_item_modifiers(Menu.items[TargetItem(items_json, state_json)])
TargetMod == TargetMods[ModIndexOf(state_json) + 1]
Picked(msg) == Choices[msg][TargetItem(items_json, state_json)][ModIndexOf(state_json) + 1]

\* the required modifiers after the one asked for
LaterRequired ==
    {k \in (ModIndexOf(state_json) + 1)..(Len(TargetMods) - 1) : TargetMods[k + 1].required}

\* msg answers the last required modifier of an item without extras
FinishesModifiers(msg) ==
    /\ AnswersModifier(msg)
    /\ Picked(msg) # << >>
    /\ LaterRequired = {}
    /\ Len(Menu.items[TargetItem(items_json, state_json)].extras) = 0

\* msg closes the extras
ClosesExtras(msg) ==
    /\ ModeOf(state_json) = "awaiting_extras"
    /\ ~IsCommand(msg)
    /\ Analysis[msg].msg_norm \in _NO_EXTRAS

\* the cart and the state with which the head of the queue is then processed
CartAfterAnswer(msg) ==
    IF ClosesExtras(msg) THEN items_json
    ELSE [items_json EXCEPT ![LineIndexOf(state_json) + 1] =
             Answered(@, TargetMod, Picked(msg))]

StateInNone ==
    LET s == Pop(Pop(Pop(state_json, "mode"), "line_index"), "pending_parts")
        t == IF ModeOf(state_json) = "awaiting_modifier" THEN Pop(s, "mod_index") ELSE s
    IN  IF Len(PendingOf(state_json)) > 1
        THEN Put(t, "pending_parts", JList(Tail(GetList(state_json, "pending_parts"))))
        ELSE t

\* C6: when a configuration step returns the machine to NONE and pending_parts is
\* not empty, its head is taken off the queue and processed in the same turn as a
\* message in mode NONE on the updated cart; the cart and the state returned are
\* those of that processing, and the reply is the confirmation followed by its reply
C6_PendingHeadProcessed ==
    [][ ( /\ PendingOf(state_json) # << >>
          /\ Strip(Head(PendingOf(state_json))) # ""
          /\ (FinishesModifiers(payload') \/ ClosesExtras(payload')) )
        => LET r == handle_message(Head(PendingOf(state_json)),
                                   CartAfterAnswer(payload'), menu_dict, StateInNone)
           IN  /\ PendingOf(state_json') = Tail(PendingOf(state_json))
               /\ items_json' = r.cart
               /\ state_json' = r.state
               /\ Len(reply') = 2 + Len(r.reply)
               /\ SubSeq(reply', 3, Len(reply')) = r.reply ]_vars

\* "no extras" with fries and a doner wrap waiting: the fries are in the cart and
\* the doner wrap still waits
C6_Witness ==
    /\ payload = "no extras"
    /\ PendingOf(state_json) = << "doner wrap" >>
    /\ Len(items_json) = 2
    /\ items_json[2].item_id = "fries"
    /\ Len(reply) >= 3
    /\ reply[1].kind = "no_extras"

\* C7: after a valid selection mod_index advances to the next later modifier that
\* is required; if there is one the mode stays AWAITING_MODIFIER on the same line,
\* otherwise it becomes AWAITING_EXTRAS on the same line if the item has extras,
\* otherwise NONE
C7_NextRequiredModifier ==
    [][ ( /\ AnswersModifier(payload')
          /\ Picked(payload') # << >>
          /\ PendingOf(state_json) = << >> )
        => IF LaterRequired # {}
           THEN /\ ModeOf(state_json') = "awaiting_modifier"
                /\ LineIndexOf(state_json') = LineIndexOf(state_json)
                /\ ModIndexOf(state_json') = SetMin(LaterRequired)
           ELSE IF Len(Menu.items[TargetItem(items_json, state_json)].extras) > 0
           THEN /\ ModeOf(state_json') = "awaiting_extras"
                /\ LineIndexOf(state_json') = LineIndexOf(state_json)
           ELSE ModeOf(state_json') = "NONE" ]_vars

\* "thin" for the base of a margherita: the optional dip is skipped
C7_Witness ==
    /\ payload = "thin"
    /\ ModeOf(state_json) = "awaiting_modifier"
    /\ HasTarget(items_json, state_json)
    /\ TargetLine(items_json, state_json).item_id = "margherita"
    /\ TargetLine(items_json, state_json).choices = [base |-> << "Thin" >>]
    /\ ModIndexOf(state_json) = 2

\* C8: a message in which no option of the current modifier is recognised, and
\* which is no command, is answered with the same options again and leaves the cart
\* and the state as they were
C8_RepromptKeepsState ==
    [][ ( /\ AnswersModifier(payload')
          /\ Picked(payload') = << >> )
        => /\ Len(reply') = 1
           /\ reply'[1].kind \in {"need_one", "need_one_or_more"}
           /\ reply'[1].detail = TargetMod.options
           /\ items_json' = items_json
           /\ state_json' = state_json ]_vars

\* "asdf" when the size of a doner wrap was asked
C8_Witness ==
    /\ payload = "asdf"
    /\ Len(reply) = 1
    /\ reply[1].kind = "need_one"
    /\ ModeOf(state_json) = "awaiting_modifier"
    /\ HasTarget(items_json, state_json)
    /\ TargetLine(items_json, state_json).choices = EmptyDict

(***************************************************************************)
(* C9, C10.  Answers to the extras prompt.                                 *)
(***************************************************************************)
\* C9: in AWAITING_EXTRAS every message of the "no extras" family closes the
\* extras: the turn ends in mode NONE (no phrase waits here) and the extras of the
\* target line are as they were
C9_NoExtrasFamilyCloses ==
    [][ ( /\ ModeOf(state_json) = "awaiting_extras"
          /\ HasTarget(items_json, state_json)
          /\ PendingOf(state_json) = << >>
          /\ Analysis[payload'].msg_norm \in _NO_EXTRAS )
        => /\ ModeOf(state_json') = "NONE"
           /\ items_json' = items_json ]_vars

\* C10: in AWAITING_EXTRAS a message that matches an extra of the target item
\* appends exactly that extra to the extras of cart[line_index], also when the line
\* has it already, recomputes the total of that line, leaves every other line and
\* the rest of that line unchanged, and leaves the state as it was
C10_ExtraAppended ==
    [][ ( /\ ModeOf(state_json) = "awaiting_extras"
          /\ HasTarget(items_json, state_json)
          /\ TargetItem(items_json, state_json) # 0
          /\ ~IsCommand(payload')
          /\ Analysis[payload'].msg_norm \notin _NO_EXTRAS
          /\ Extras[payload'][TargetItem(items_json, state_json)] # 0 )
        => LET i == TargetItem(items_json, state_json)
               extra == Menu.items[i].extras[Extras[payload'][i]]
               line == TargetLine(items_json, state_json)
               line2 == TargetLine(items_json', state_json)
           IN  /\ state_json' = state_json
               /\ Len(items_json') = Len(items_json)
               /\ \A n \in 1..Len(items_json) :
                      n # LineIndexOf(state_json) + 1 => items_json'[n] = items_json[n]
               /\ line2.extras = Append(line.extras, extra)
               /\ line2.line_total = PriceOf(line2)
               /\ line2 = [line EXCEPT !.extras = line2.extras,
                                       !.line_total = line2.line_total] ]_vars

\* "cheese" a second time for the first of two lines: two Cheese on that line
C10_Witness ==
    /\ payload = "cheese"
    /\ ModeOf(state_json) = "awaiting_extras"
    /\ LineIndexOf(state_json) = 0
    /\ Len(items_json) = 2
    /\ items_json[1].extras = << [name |-> "Cheese", price |-> 50],
                                 [name |-> "Cheese", price |-> 50] >>
    /\ items_json[1].line_total = PriceOf(items_json[1])

(***************************************************************************)
(* C11.  A message the extras prompt does not understand.                  *)
(***************************************************************************)
\* C11: in AWAITING_EXTRAS a message that is not of the "no extras" family, matches
\* no extra of the target item and is no command is answered with the list of the
\* item's extras and leaves the cart and the state as they were
C11_UnknownExtraRestates ==
    [][ ( /\ ModeOf(state_json) = "awaiting_extras"
          /\ HasTarget(items_json, state_json)
          /\ TargetItem(items_json, state_json) # 0
          /\ ~IsCommand(payload')
          /\ Analysis[payload'].msg_norm \notin _NO_EXTRAS
          /\ Extras[payload'][TargetItem(items_json, state_json)] = 0 )
        => /\ Len(reply') = 1
           /\ reply'[1].kind = "extras_available"
           /\ reply'[1].detail = ExtraNames(Menu.items[TargetItem(items_json, state_json)])
           /\ items_json' = items_json
           /\ state_json' = state_json ]_vars

\* "asdf" when the extras of a doner wrap were asked
C11_Witness ==
    /\ payload = "asdf"
    /\ Len(reply) = 1
    /\ reply[1].kind = "extras_available"
    /\ reply[1].detail = << "Cheese" >>
    /\ ModeOf(state_json) = "awaiting_extras"
    /\ HasTarget(items_json, state_json)
    /\ TargetLine(items_json, state_json).item_id = "doner_wrap"

(***************************************************************************)
(* C12, C13.  remove / delete.                                             *)
(***************************************************************************)
\* the item a remove / delete command names, 0 when it names none
RemoveTarget(msg) == IF Analysis[msg].is_remove THEN Analysis[msg].target ELSE 0

\* the lines of the cart c that hold item i of the menu
LinesOf(c, i) == {n \in 1..Len(c) : c[n].item_id = Menu.items[i].id}

\* the message is taken as a remove / delete command (lines 737-747)
IsRemoveCommand(msg) ==
    /\ Analysis[msg].is_remove
    /\ Analysis[msg].msg_norm \notin {"basket", "cart", "summary", "my order", "whats my order",
                                      "what s my order", "what's my order",
                                      "confirm", "place order", "checkout"}

\* C12: a remove / delete command that names an item of the cart touches only the
\* first line of that item: with qty 1 the line is deleted, with qty > 1 the qty goes
\* down by exactly 1 and line_total is recomputed; every other line keeps its content
\* and its place among the others
C12_RemoveFirstLine ==
    [][ ( /\ IsRemoveCommand(payload')
          /\ RemoveTarget(payload') # 0
          /\ LinesOf(items_json, RemoveTarget(payload')) # {} )
        => LET n == SetMin(LinesOf(items_json, RemoveTarget(payload')))
               line == items_json[n]
               less == [line EXCEPT !.qty = line.qty - 1]
           IN  IF line.qty = 1
               THEN items_json' = SubSeq(items_json, 1, n - 1)
                                  \o SubSeq(items_json, n + 1, Len(items_json))
               ELSE items_json' =
                        [items_json EXCEPT ![n] = [less EXCEPT !.line_total = PriceOf(less)]]
      ]_vars

\* "remove doner wrap" with fries and two doner wraps in the cart: one doner wrap is
\* left on its line, after the fries
C12_Witness ==
    /\ payload = "remove doner wrap"
    /\ Len(reply) = 2
    /\ reply[1].kind = "removed"
    /\ Len(items_json) = 2
    /\ items_json[1].item_id = "fries"
    /\ items_json[2].item_id = "doner_wrap"
    /\ items_json[2].qty = 1
    /\ items_json[2].line_total = 600
    /\ ModeOf(state_json) = "awaiting_modifier"
    /\ LineIndexOf(state_json) = 1

\* C13: a remove / delete command whose target names no menu item, or names an item
\* that is not in the cart, is answered with a re-prompt and returns the cart and the
\* state as they were passed in
C13_RemoveNothing ==
    [][ ( /\ IsRemoveCommand(payload')
          /\ \/ RemoveTarget(payload') = 0
             \/ LinesOf(items_json, RemoveTarget(payload')) = {} )
        => /\ Len(reply') = 1
           /\ reply'[1].kind = IF RemoveTarget(payload') = 0
                               THEN "which_to_remove" ELSE "not_in_basket"
           /\ items_json' = items_json
           /\ state_json' = state_json ]_vars

\* "remove doner wrap" while fries wait for nothing and a margherita for its base
C13_Witness ==
    /\ payload = "remove doner wrap"
    /\ Len(reply) = 1
    /\ reply[1].kind = "not_in_basket"
    /\ Len(items_json) = 2
    /\ items_json[1].item_id = "fries"
    /\ items_json[2].item_id = "margherita"
    /\ ModeOf(state_json) = "awaiting_modifier"
    /\ LineIndexOf(state_json) = 1

(***************************************************************************)
(* C14.  A state that points at nothing.                                   *)
(***************************************************************************)
\* the state is in a configuration mode and its line_index is no index of the cart,
\* or the item of that line is not in the menu, or its mod_index is no index of the
\* modifiers of that item
StaleState(c, s) ==
    /\ ModeOf(s) \in {"awaiting_modifier", "awaiting_extras"}
    /\ \/ ~HasTarget(c, s)
       \/ TargetItem(c, s) = 0
       \/ /\ ModeOf(s) = "awaiting_modifier"
          /\ ~( /\ 0 <= ModIndexOf(s)
                /\ ModIndexOf(s) < Len(_get_item_modifiers(Menu.items[TargetItem(c, s)])) )

\* C14: when the incoming state is in AWAITING_MODIFIER or AWAITING_EXTRAS and its
\* line_index, its mod_index or the item of its line is not valid, the state is
\* reset to NONE and the message (one that is no command) gives the cart, the reply
\* and the state that it gives as a fresh turn in mode NONE on the same cart
C14_SelfHealing ==
    [][ ( /\ StaleState(items_json, state_json)
          /\ ~IsCommand(payload') )
        => /\ items_json' = handle_message(payload', items_json, menu_dict, EmptyDict).cart
           /\ reply' = handle_message(payload', items_json, menu_dict, EmptyDict).reply
           /\ state_json' = handle_message(payload', items_json, menu_dict, EmptyDict).state ]_vars

(***************************************************************************)
(* C15.  A state whose fields are malformed.                               *)
(***************************************************************************)
\* the fields of the state s that are of the type handle_message reads them as
WellFormedKeys(s) ==
    {k \in DOMAIN s :
        \/ k \notin {"mode", "line_index", "mod_index", "pending_parts"}
        \/ k = "mode" /\ s[k].type = "str"
        \/ k \in {"line_index", "mod_index"} /\ int(s[k]).raises = ""
        \/ k = "pending_parts" /\ s[k].type = "list"}

\* the state s with its malformed fields absent
WithoutMalformed(s) == [k \in WellFormedKeys(s) |-> s[k]]

\* C15: handle_message raises on no state: whatever mode, line_index, mod_index and
\* pending_parts are, or if they are absent, the call returns, with the reply and
\* the cart of the same call on the state with its malformed fields absent
C15_MalformedStateNeverRaises ==
    [][ /\ reply' # << >>
        /\ reply'[1].kind # "raise"
        /\ reply' = handle_message(payload', items_json, menu_dict, WithoutMalformed(state_json)).reply
        /\ items_json' = handle_message(payload', items_json, menu_dict, WithoutMalformed(state_json)).cart
      ]_vars

(***************************************************************************)
(* C16.  Stored texts that are no JSON array, no JSON object.              *)
(***************************************************************************)
\* the stored carts that are no JSON, or JSON that is no array
NoArrayTexts == { "null", "{}", "[", "oops", "7", "{\"item_id\": \"fries\"}" }

\* the stored states that are no JSON, or JSON that is no object
NoObjectTexts == { "null", "[]", "{", "oops", "5", "\"awaiting_extras\"" }

\* C16: a serialized cart that is no valid JSON or no JSON array is loaded as the
\* empty cart, a serialized state that is no valid JSON or no JSON object as the
\* empty state; the call raises nothing and gives what a turn in mode NONE gives
\* on the empty cart (when the cart is one of these) and the empty state (when the
\* state is)
C16_MalformedTextsLoadEmpty ==
    [][ turns = 0 =>
          /\ stored.items_json \in NoArrayTexts => items_json = << >>
          /\ stored.state_json \in NoObjectTexts => state_json = EmptyDict
          /\ (stored.items_json \in NoArrayTexts \/ stored.state_json \in NoObjectTexts) =>
                LET r == handle_message(payload',
                             IF stored.items_json \in NoArrayTexts
                             THEN << >> ELSE items_json,
                             menu_dict,
                             IF stored.state_json \in NoObjectTexts
                             THEN EmptyDict ELSE state_json)
                IN  /\ reply' = r.reply
                    /\ items_json' = r.cart
                    /\ state_json' = r.state
          /\ (stored.items_json \in NoArrayTexts /\ stored.state_json \in NoObjectTexts) =>
                reply'[1].kind # "raise" ]_vars

\* "doner wrap" to an order that stored "oops" as its cart and "[" as its state
C16_Witness ==
    /\ stored = [items_json |-> "oops", state_json |-> "{"]
    /\ turns = 1
    /\ payload = "doner wrap"
    /\ Len(items_json) = 1
    /\ items_json[1].item_id = "doner_wrap"
    /\ ModeOf(state_json) = "awaiting_modifier"
    /\ LineIndexOf(state_json) = 0

(***************************************************************************)
(* C17.  The commands that only show something.                            *)
(***************************************************************************)
\* basket / cart / summary, confirm / checkout / place order, menu, or a greeting
\* and nothing else
IsDisplayCommand(msg) ==
    \/ Analysis[msg].msg_norm \in {"basket", "cart", "summary", "my order", "whats my order",
                                   "what s my order", "what's my order",
                                   "confirm", "place order", "checkout"}
    \/ /\ ~Analysis[msg].is_remove
       /\ Analysis[msg].menu \/ Analysis[msg].greeting

\* C17: basket / cart / summary, confirm / checkout / place order, menu and a
\* greeting-only message return the cart and the state as they were, in every mode
\* and for every cart
C17_DisplayCommandsKeepAll ==
    [][ IsDisplayCommand(payload')
        => /\ items_json' = items_json
           /\ state_json' = state_json
           /\ reply'[1].kind \in {"summary", "basket_empty", "we_have", "hey"} ]_vars

\* "confirm" while the extras of the second line of the cart are asked
C17_Witness ==
    /\ payload = "confirm"
    /\ Len(reply) = 2
    /\ reply[2].kind = "hit_confirm"
    /\ Len(items_json) = 2
    /\ ModeOf(state_json) = "awaiting_extras"
    /\ LineIndexOf(state_json) = 1

(***************************************************************************)
(* C18.  A message that names nothing.                                     *)
(***************************************************************************)
\* no phrase of the message names an item, a keyword of items or a category, and
\* the message is no command and no phrase of the "anything else" family
NamesNothing(msg) ==
    /\ ~IsCommand(msg)
    /\ ~Analysis[msg].continue
    /\ \A n \in 1..Len(Analysis[msg].parts) :
           /\ Analysis[msg].parts[n].item = 0
           /\ Analysis[msg].parts[n].matches = << >>
           /\ Analysis[msg].parts[n].cat2 = 0

\* C18: in mode NONE a message none of whose phrases resolves to a command, a
\* category or a menu item is answered with the help message and returns the cart
\* and the state as they were
C18_UnknownTextGetsHelp ==
    [][ ( /\ ModeOf(state_json) = "NONE"
          /\ NamesNothing(payload') )
        => /\ reply' = Seg("help", << >>)
           /\ items_json' = items_json
           /\ state_json' = state_json ]_vars

\* "asdf" with two lines in the basket and nothing being asked
C18_Witness ==
    /\ payload = "asdf"
    /\ reply = Seg("help", << >>)
    /\ ModeOf(state_json) = "NONE"
    /\ Len(items_json) = 2

\* C19: building the menu index leaves the menu document it is given as it was: after
\* every call of handle_message the caller's menu object has exactly the keys and the
\* values it had before the call, no index among them.
C19_IndexLeavesMenuAlone ==
    [][ menu_dict' = menu_dict ]_vars

\* the menu object a session holds after n calls of its own and none of any other
RECURSIVE AloneMenu(_)
AloneMenu(n) == IF n = 0 THEN Menu ELSE Indexed[AloneMenu(n - 1)]

\* C20: no cross-call state: with two sessions handed one menu object, the calls of the
\* two in any order, every call of this session returns the reply, the cart and the
\* state it would return had the other session made no call at all (its own order as
\* it is, the menu object as this session's calls alone leave it), and a call of the
\* other session leaves this session's order as it is.
C20_NoCrossCallState ==
    [][ /\ turns' = turns + 1 =>
            LET r == handle_message(payload', items_json, AloneMenu(turns), state_json)
            IN  /\ reply' = r.reply
                /\ items_json' = r.cart
                /\ state_json' = r.state
        /\ turns' = turns => UNCHANGED << items_json, state_json, reply >> ]_vars

\* the two calls of each session done, the other session's last call between this
\* session's two; each has a line in its basket
C20_Witness ==
    /\ turns = 2
    /\ other.turns = 2
    /\ other.after = 1
    /\ Len(other.items_json) = 1
    /\ Len(items_json) = 1
    /\ ModeOf(state_json) = "awaiting_extras"

\* C21: every call of handle_message ends, and the calls of handle_message it makes
\* to drain pending_parts are nested at most as deep as pending_parts has phrases
\* when the turn starts.
C21_NestedCallsBounded ==
    [][ turns' = turns + 1 =>
            handle_message(payload', items_json, menu_dict, state_json).depth
                <= Len(PendingOf(state_json)) ]_vars

\* "no extras" finished a doner wrap while fries waited: the nested call put the
\* fries in the cart and nothing waits any more
C21_Witness ==
    /\ payload = "no extras"
    /\ stored.state_json = PendingText(<< "fries" >>)
    /\ Len(items_json) = 2
    /\ items_json[1].item_id = "doner_wrap"
    /\ items_json[2].item_id = "fries"
    /\ Len(reply) >= 3
    /\ reply[1].kind = "no_extras"
    /\ PendingOf(state_json) = << >>

\* the phrases a message is split into on a menu object
PhrasesOn(menu, msg) ==
    [k \in 1..Len(AnalysisOn[menu][msg].parts) |-> AnalysisOn[menu][msg].parts[k].part]

\* the messages that name Salt and Pepper Chicken and one other item joined by "and",
\* with the two names
ProtectedSplits ==
    ("salt and pepper chicken and fries" :> << "salt and pepper chicken", "fries" >>)
        @@ ("fries and salt and pepper chicken" :> << "fries", "salt and pepper chicken" >>)

\* C22: protected split: on a menu with the item Salt and Pepper Chicken, a message
\* that names that item and one other item joined by "and" is split into exactly two
\* phrases, the item's full name with its "and" being one of them, and a line of each
\* of the two items is added to the cart.
C22_ProtectedSplit ==
    [][ (turns' = turns + 1 /\ payload' \in DOMAIN ProtectedSplits) =>
            /\ PhrasesOn(menu_dict, payload') = ProtectedSplits[payload']
            /\ Len(items_json') = Len(items_json) + 2 ]_vars

\* Fries and Chicken Wings joined by each of the separators
SeparatorMessages ==
    { "fries, chicken wings", "fries & chicken wings", "fries + chicken wings",
      "fries and chicken wings" }

\* C23: each of the separators ",", "&", "+" and the word "and" splits a message: in
\* NONE mode a message of two item names joined by one of them is handled as two
\* phrases and adds two lines to the cart, one of each item.
C23_EachSeparatorSplits ==
    [][ ( /\ turns' = turns + 1
          /\ payload' \in SeparatorMessages
          /\ ModeOf(state_json) = "NONE" )
        => /\ PhrasesOn(menu_dict, payload') = << "fries", "chicken wings" >>
           /\ Len(items_json') = Len(items_json) + 2
           /\ items_json'[Len(items_json) + 1].item_id = "fries"
           /\ items_json'[Len(items_json) + 2].item_id = "chicken_wings" ]_vars

\* C24: normalisation is idempotent: with the default synonyms merged with the menu's,
\* normalising a text that is itself the result of a normalisation returns it as it is.
C24_NormalizeIdempotent ==
    [][ (turns >= 1 /\ turns' = turns + 1) => payload' = payload ]_vars

\* C25: every line of the cart has a quantity of at least 1, whatever the turns made
\* from an empty cart: a quantity prefix of 0 adds one, and a removal takes one off a
\* line of several and drops a line of one.
C25_QtyAtLeastOne ==
    \A k \in 1..Len(items_json) : items_json[k].qty >= 1

\* "0x fries" added a line of one Fries after a line of two lost one to "remove fries"
C25_Witness ==
    /\ payload = "0x fries"
    /\ Len(items_json) = 2
    /\ items_json[1].item_id = "fries"
    /\ items_json[1].qty = 1
    /\ items_json[2].item_id = "fries"
    /\ items_json[2].qty = 1
    /\ turns = 3

\* the prices and the line totals of a cart, in line order
PricesOf(cart) == [k \in 1..Len(cart) |-> cart[k].base_price]
LineTotalsOf(cart) == [k \in 1..Len(cart) |-> cart[k].line_total]

\* C26: each line_total is round(price, 2) of the line on its own and the basket
\* total is the sum of the rounded line totals; round is the rounding of the double
\* that holds the price, so lines priced 5.005 and 2.995 get 5.00 and 3.00 and a
\* basket total of 8.00.
C26_TwoStageRounding ==
    /\ \A k \in 1..Len(items_json) :
          /\ items_json[k].line_total = round(items_json[k].base_price)
          /\ 10 * items_json[k].line_total - items_json[k].base_price \in -5..5
    /\ reply # << >> => reply[1].detail = _cart_total(items_json)
    /\ PricesOf(items_json) = << 5005, 2995 >>
          => /\ LineTotalsOf(items_json) = << 500, 300 >>
             /\ reply[1].detail = 800

C26_Witness ==
    /\ PricesOf(items_json) = << 5005, 2995 >>
    /\ LineTotalsOf(items_json) = << 500, 300 >>
    /\ reply[1].detail = 800

\* C26 as the specification words it: lines priced 5.005 and 2.995 get 5.01 and 3.00
\* and a basket total of 8.01
C26_TwoStageRounding_as_worded ==
    PricesOf(items_json) = << 5005, 2995 >>
        => /\ LineTotalsOf(items_json) = << 501, 300 >>
           /\ reply[1].detail = 801

\* what a rewritten request asked for, and the text the rewriter made of the command
RequestLlm == requests[1].llm
CommandText == command_to_userlike_text(RequestLlm.outcome.cmd)

\* the rewriter ran and gave a command whose text is not empty
RewriterSucceeded ==
    /\ RequestLlm.llm_enabled
    /\ RequestLlm.openai_api_key # ""
    /\ RequestLlm.interpret_message_llm
    /\ RequestLlm.outcome.raises = ""
    /\ CommandText.raises = ""
    /\ CommandText.text # ""

\* C27: the message handed to handle_message is the rewriter's command text only when
\* the rewriter is enabled, has a key, raised nothing and gave a command whose text is
\* not empty; when it is disabled, has no key, raises, or gives an unknown intent or an
\* empty text, the message is the raw message.
C27_RewriterFallback ==
    turns = 1 =>
        /\ RewriterSucceeded => payload = CommandText.text
        /\ ~RewriterSucceeded => payload = requests[1].message
        /\ ~RequestLlm.llm_enabled => payload = requests[1].message
        /\ RequestLlm.openai_api_key = "" => payload = requests[1].message
        /\ RequestLlm.outcome.raises # "" => payload = requests[1].message
        /\ RequestLlm.outcome.cmd = Intent("unknown") => payload = requests[1].message
        /\ RequestLlm.outcome.cmd = Intent("add_item") => payload = requests[1].message

C27_Witness ==
    /\ turns = 1
    /\ requests[1].message = "can i get some chips pls"
    /\ RequestLlm.outcome = [raises |-> "", cmd |-> AddItem(JStr(" Fries "), JInt(2))]
    /\ RewriterSucceeded
    /\ payload = "2x Fries"

\* the draft orders of a user
DraftsOf(user_id) ==
    {id \in 1..Len(orders) : orders[id].user_id = user_id /\ orders[id].status = "draft"}

\* the requests of a user that have given way at the await of the rewriter
AwaitingOf(user_id) ==
    {slot \in 1..MaxInFlight : requests[slot] # Idle /\ requests[slot].user_id = user_id}

ChatTurnEnded == reply # << >> /\ reply[1].kind = "chat"

\* the order of the response, as the table holds it
OrderOfReply == orders[reply[1].detail.order_id]

\* the menu of the chat turn of the response
MenuOfReply == MenusOnDisk[MenuOfRequest(reply[1].detail.restaurant_slug)]

\* the ids of the items of a menu
IdsOn(menu) == {menu.items[i].id : i \in 1..Len(menu.items)}

(***************************************************************************)
(* C29.  Restaurant scoping: when a chat turn of /chat or /r/{slug}/chat   *)
(* has ended, every line of the cart of its draft is a line of the menu of *)
(* that turn; no line added under another restaurant is left in it.        *)
(***************************************************************************)
C29_RestaurantScoping ==
    ChatTurnEnded =>
        \A n \in 1..Len(OrderOfReply.items_json) :
            OrderOfReply.items_json[n].item_id \in IdsOn(MenuOfReply)

\* handle_message takes the text for the command reset / clear / start over / new order
RESET_COMMANDS == { "reset", "clear", "start over", "new order" }
IsResetCommand(menu, text) == BrainAnalysis[menu.meta.slug][text].msg_norm \in RESET_COMMANDS

\* the order has an empty cart and an empty state
Cleared(order) == order.items_json = << >> /\ order.state_json = EmptyDict

(***************************************************************************)
(* C30.  Conversation state is cleared on reset and on confirmation: when  *)
(* a chat turn whose message is a reset command has ended, and when        *)
(* /order/reset has reset a draft, the cart of the draft is empty and its  *)
(* state is empty; when /order/confirm has succeeded, the state of the     *)
(* order is empty and its status is "confirmed".                           *)
(***************************************************************************)
C30_ClearedOnResetAndConfirm ==
    /\ ChatTurnEnded /\ IsResetCommand(MenuOfReply, payload) => Cleared(OrderOfReply)
    /\ reply # << >> /\ reply[1].kind = "reset" /\ reply[1].detail.message = "Draft reset"
           => Cleared(OrderOfReply)
    /\ reply # << >> /\ reply[1].kind = "confirmed"
           => OrderOfReply.state_json = EmptyDict /\ OrderOfReply.status = "confirmed"

\* a reset command has ended on a draft that held a line and the slug of a restaurant, as
\* a request still in flight on that draft loaded them
C30_Witness ==
    /\ ChatTurnEnded
    /\ IsResetCommand(MenuOfReply, payload)
    /\ Cleared(OrderOfReply)
    /\ \E slot \in 1..MaxInFlight :
           /\ requests[slot] # Idle
           /\ requests[slot].order.id = reply[1].detail.order_id
           /\ requests[slot].order.items_json # << >>
           /\ requests[slot].order.state_json # EmptyDict

(***************************************************************************)
(* A conversation that orders, answers and removes, on an order whose      *)
(* state holds the slug its caller keeps there.                            *)
(***************************************************************************)
MaxAddTurns == 4

\* order.state_json as /r/{slug}/chat left it: {"restaurant_slug": "kebab"}
InitAdd ==
    /\ stored = [items_json |-> "[]", state_json |-> "{\"restaurant_slug\": \"kebab\"}"]
    /\ Loaded
    /\ payload = ""
    /\ reply = << >>
    /\ turns = 0
    /\ menu_dict = Menu
    /\ other = NewOrder
    /\ orders = << >>
    /\ requests = << >>

AddTurn(msg) == turns < MaxAddTurns /\ Turn(msg)

NextAdd == \E msg \in AddMessages : AddTurn(msg)

SpecAdd == InitAdd /\ [][NextAdd]_vars

(***************************************************************************)
(* C31.  The lines a message appends.                                      *)
(***************************************************************************)
\* the fields of a CartLine
CartLine(line) ==
    [item_id |-> line.item_id, name |-> line.name, qty |-> line.qty,
     base_price |-> line.base_price, choices |-> line.choices,
     choice_price_deltas |-> line.choice_price_deltas, extras |-> line.extras,
     notes |-> line.notes, line_total |-> line.line_total]

\* the phrases, in order, that resolve to exactly one item among those the turn
\* processes: it stops at a phrase that matches several items, and at a phrase that
\* names a category when no phrase before it resolved
RECURSIVE PhraseLines(_, _, _)
PhraseLines(parts, n, resolved) ==
    IF n > Len(parts) THEN << >>
    ELSE IF parts[n].item # 0 THEN << parts[n] >> \o PhraseLines(parts, n + 1, TRUE)
    ELSE IF Len(parts[n].matches) > 1 \/ (parts[n].cat2 # 0 /\ ~resolved) THEN << >>
    ELSE PhraseLines(parts, n + 1, resolved)

\* C31: in NONE mode each phrase resolving to exactly one menu item appends exactly
\* one new line at the end of the cart, in phrase order, with the parsed qty, the
\* item's base_price, empty choices and extras, and line_total = qty * base_price;
\* the lines already in the cart keep their position and their content
C31_PhrasesAppendLines ==
    [][ ( /\ ModeOf(state_json) = "NONE"
          /\ ~IsCommand(payload') )
        => LET new == PhraseLines(Analysis[payload'].parts, 1, FALSE)
           IN  /\ Len(items_json') = Len(items_json) + Len(new)
               /\ \A k \in 1..Len(items_json) :
                      CartLine(items_json'[k]) = CartLine(items_json[k])
               /\ \A n \in 1..Len(new) :
                      CartLine(items_json'[Len(items_json) + n]) =
                          [item_id |-> Menu.items[new[n].item].id,
                           name |-> Menu.items[new[n].item].name,
                           qty |-> new[n].qty,
                           base_price |-> Menu.items[new[n].item].base_price,
                           choices |-> EmptyDict,
                           choice_price_deltas |-> EmptyDict,
                           extras |-> << >>,
                           notes |-> "",
                           line_total |-> new[n].qty * Menu.items[new[n].item].base_price]
      ]_vars

\* "2x doner wrap", then "doner wrap and margherita" once the first line is configured:
\* three lines, the first as it was
C31_Witness ==
    /\ payload = "doner wrap and margherita"
    /\ Len(items_json) = 3
    /\ items_json[1].item_id = "doner_wrap"
    /\ items_json[1].qty = 2
    /\ items_json[1].line_total = 1500
    /\ items_json[2].item_id = "doner_wrap"
    /\ items_json[2].qty = 1
    /\ items_json[3].item_id = "margherita"
    /\ items_json[3].line_total = 800

(***************************************************************************)
(* C32.  The mode a message that adds lines ends in.                       *)
(***************************************************************************)
\* the item of a phrase has a required modifier, has extras
NeedsModifier(part) == FirstRequired(_get_item_modifiers(Menu.items[part.item]), 0)
                           < Len(_get_item_modifiers(Menu.items[part.item]))
HasExtras(part) == Len(Menu.items[part.item].extras) > 0

\* C32: when the phrases of a message in NONE mode have been processed: if a line
\* added by this message needs a required modifier, the turn ends in
\* AWAITING_MODIFIER at the first such line and its first required modifier;
\* otherwise, if a line added by this message has extras, in AWAITING_EXTRAS at
\* that line; otherwise the state stays NONE
C32_ModeAfterAdding ==
    [][ ( /\ ModeOf(state_json) = "NONE"
          /\ ~IsCommand(payload')
          /\ AllPartsResolve(payload') )
        => LET parts == Analysis[payload'].parts
               modifiers == {n \in 1..Len(parts) : NeedsModifier(parts[n])}
               extras == {n \in 1..Len(parts) : HasExtras(parts[n])}
           IN  IF modifiers # {}
               THEN /\ ModeOf(state_json') = "awaiting_modifier"
                    /\ LineIndexOf(state_json') = Len(items_json) + SetMin(modifiers) - 1
                    /\ ModIndexOf(state_json') =
                           FirstRequired(_get_item_modifiers(
                               Menu.items[parts[SetMin(modifiers)].item]), 0)
               ELSE IF extras # {}
               THEN /\ ModeOf(state_json') = "awaiting_extras"
                    /\ LineIndexOf(state_json') = Len(items_json) + SetMin(extras) - 1
               ELSE ModeOf(state_json') = "NONE"
      ]_vars

(***************************************************************************)
(* C35.  Extras closed for a line stay closed.                             *)
(***************************************************************************)
\* the turn that ended here took "no extras" while extras were asked, and left the
\* one line of the cart with its extras closed
ExtrasJustClosed ==
    /\ payload = "no extras"
    /\ reply # << >>
    /\ reply[1].kind = "no_extras"
    /\ ModeOf(state_json) = "NONE"
    /\ Len(items_json) = 1

\* every phrase of the message names an item without required modifiers and extras
OnlyPlainItems(msg) ==
    /\ AllPartsResolve(msg)
    /\ \A n \in 1..Len(Analysis[msg].parts) :
           ~NeedsModifier(Analysis[msg].parts[n]) /\ ~HasExtras(Analysis[msg].parts[n])

\* C35: once extras were closed with "no extras" for a line, the turn that follows
\* does not end in AWAITING_EXTRAS for that line; in particular, a message that then
\* adds only items without modifiers and extras leaves the state NONE
C35_ExtrasStayClosed ==
    [][ ( /\ ExtrasJustClosed
          /\ ~IsCommand(payload') )
        => /\ ~( /\ ModeOf(state_json') = "awaiting_extras"
                 /\ LineIndexOf(state_json') = 0 )
           /\ OnlyPlainItems(payload') => ModeOf(state_json') = "NONE"
      ]_vars

(***************************************************************************)
(* C34.  No line is left half configured.                                  *)
(***************************************************************************)
\* the line has a choice for each required modifier of its item
Configured(line) ==
    LET i == ItemById(IndexedMenu, line.item_id)
        mods == _get_item_modifiers(Menu.items[i])
    IN  i # 0 => \A k \in 1..Len(mods) : mods[k].required => mods[k].key \in DOMAIN line.choices

\* C34: whenever a turn ends in NONE with lines in the cart, every line whose item
\* has required modifiers has a choice for each of them; in particular the two
\* items of one message are both configured
C34_NoneMeansConfigured ==
    ModeOf(state_json) = "NONE" =>
        \A k \in 1..Len(items_json) : Configured(items_json[k])

(***************************************************************************)
(* C33.  An answer goes to the line that was asked about.                  *)
(***************************************************************************)
\* the state waits for an answer that the handler will record on the line it points at
AwaitsAnswer(c, s) ==
    /\ ModeOf(s) \in {"awaiting_modifier", "awaiting_extras"}
    /\ HasTarget(c, s)
    /\ TargetItem(c, s) # 0
    /\ ModeOf(s) = "awaiting_modifier" =>
           /\ 0 <= ModIndexOf(s)
           /\ ModIndexOf(s) < Len(_get_item_modifiers(Menu.items[TargetItem(c, s)]))
    /\ ModeOf(s) = "awaiting_extras" => Len(Menu.items[TargetItem(c, s)].extras) > 0

\* the same line, whatever its quantity
SameLine(line, asked) ==
    CartLine([line EXCEPT !.qty = 0, !.line_total = 0]) =
        CartLine([asked EXCEPT !.qty = 0, !.line_total = 0])

\* C33: a modifier or extras answer is only recorded on the line for which the
\* prompt was issued, also when a remove/delete command comes between the prompt and
\* the answer: a remove never leaves the handler waiting to record the answer on
\* another line than the one it asked about
C33_AnswerOnPromptedLine ==
    [][ ( /\ AwaitsAnswer(items_json, state_json)
          /\ reply' # << >>
          /\ reply'[1].kind = "removed" )
        => ~( /\ AwaitsAnswer(items_json', state_json')
              /\ ~SameLine(TargetLine(items_json', state_json'),
                           TargetLine(items_json, state_json)) )
      ]_vars

(***************************************************************************)
(* C36.  State keys of the caller.                                         *)
(***************************************************************************)
\* C36: handle_message preserves the state keys it does not own, for instance
\* restaurant_slug, on every turn that is not an explicit reset, the turns that heal
\* a stale state and the turns that finish a configuration included
C36_ForeignKeysKept ==
    [][ /\ "restaurant_slug" \in DOMAIN state_json => "restaurant_slug" \in DOMAIN state_json'
        /\ Get(state_json', "restaurant_slug", JNull) = Get(state_json, "restaurant_slug", JNull)
      ]_vars

(***************************************************************************)
(* A conversation of item names, on the menu that has an item named like   *)
(* its category.                                                           *)
(***************************************************************************)
MaxNameTurns == 2

InitNames ==
    /\ stored = [items_json |-> "[]", state_json |-> "{}"]
    /\ Loaded
    /\ payload = ""
    /\ reply = << >>
    /\ turns = 0
    /\ menu_dict = NameMenu
    /\ other = NewOrder
    /\ orders = << >>
    /\ requests = << >>

NameTurn(msg) == turns < MaxNameTurns /\ Turn(msg)

NextNames == \E msg \in NameMessages : NameTurn(msg)

SpecNames == InitNames /\ [][NextNames]_vars

(***************************************************************************)
(* C37.  An item's exact name orders that item.                            *)
(***************************************************************************)
\* the item whose name is the message, whatever the case of the letters
ItemNamed(msg) ==
    CHOOSE i \in 1..Len(NameMenu.items) : Lower(NameMenu.items[i].name) = Lower(msg)

\* C37: in NONE mode a message equal to the exact name of an item of the menu,
\* whatever its case, appends a line for that item: the name is never taken for a
\* category and never resolved to another item
C37_ExactNameAddsItem ==
    [][ ModeOf(state_json) = "NONE"
        => /\ Len(items_json') = Len(items_json) + 1
           /\ SubSeq(items_json', 1, Len(items_json)) = items_json
           /\ items_json'[Len(items_json')].item_id = NameMenu.items[ItemNamed(payload')].id
           /\ items_json'[Len(items_json')].name = NameMenu.items[ItemNamed(payload')].name
      ]_vars

(***************************************************************************)
(* C38.  Chat requests that overlap on one draft.                          *)
(***************************************************************************)
\* a whole chat turn of an endpoint on the cart and the state of an order: the order
\* as its row would hold it afterwards
ChatTurnOn(order, slug, text) ==
    LET scoped == IF slug = "" THEN order
                  ELSE _ensure_order_scoped_to_restaurant(order, slug)
        r == brain_handle_message(text, scoped.items_json,
                                  MenusOnDisk[MenuOfRequest(slug)], scoped.state_json)
    IN  [order EXCEPT !.items_json = r.cart, !.state_json = r.state]

\* C38: when a chat request commits after another chat turn on the same draft has
\* ended, the stored cart and state are those of applying the two messages one after
\* the other, in one of the two orders: no line the other turn added is lost
C38_OverlapSerializable ==
    [][ \A slot \in 1..MaxInFlight :
          ( /\ requests[slot] # Idle
            /\ requests'[slot] = Idle
            /\ ChatTurnEnded
            /\ reply[1].detail.order_id = requests[slot].order.id )
          => LET mine == requests[slot]
                 text == _apply_optional_llm_rewrite(mine.message, mine.llm)
             IN  Held(orders', mine.order.id) \in
                     { ChatTurnOn(Held(orders, mine.order.id), mine.slug, text),
                       ChatTurnOn(ChatTurnOn(mine.order, mine.slug, text),
                                  reply[1].detail.restaurant_slug, payload) }
      ]_vars

(***************************************************************************)
(* C39.  A confirmed order is final.                                       *)
(***************************************************************************)
\* /order/confirm has answered 400 in this step
ConfirmRejected ==
    /\ turns' = turns + 1
    /\ requests' = requests
    /\ reply' # << >>
    /\ reply'[1].kind = "400"

\* C39: once the status of an order is "confirmed", no later chat turn, reset or
\* confirm request changes its items, its state or its status; and a confirm request
\* that is rejected, as on a draft with an empty cart, leaves the orders unchanged
C39_ConfirmedIsFinal ==
    [][ /\ \A id \in 1..Len(orders) :
               orders[id].status = "confirmed" => orders'[id] = orders[id]
        /\ ConfirmRejected => orders' = orders
      ]_vars

====
